---------------------------- MODULE Spec2Model ----------------------------
(***************************************************************************)
(* A model of the retrieval-and-answer core of rag_avancado:               *)
(*   - AutonomousAgent.process_stream  (src/src/autonomous_agent.py)       *)
(*   - StreamingRAGSystem.query_stream (src/src/rag_streaming.py)          *)
(*   - CacheManager                    (src/src/cache_manager.py)          *)
(* A generator is modelled as a process whose program counter stops at     *)
(* the yields that separate its externally visible steps.  Everything a    *)
(* collaborator outside the repository decides (the text a generation      *)
(* backend returns, whether a tool succeeds, what the vector index holds)  *)
(* is an input drawn from a bounded set.                                   *)
(***************************************************************************)
EXTENDS Integers, Sequences, FiniteSets, TLC

(***************************************************************************)
(* Bounds of the model.                                                    *)
(***************************************************************************)
\* longest planner response, in symbols
MaxRespLen == 3
\* most fragments one generate_stream call produces
MaxFragments == 1
\* query_stream calls in one behaviour
MaxRequests == 2
\* steps of the clock in one behaviour
MaxTicks == 1
\* longest all_results list the searches of one request produce
MaxAllResults == 2
\* StreamingRAGSystem(k_documents=...): a constructor argument
k_documents == 1
\* query_stream calls that run side by side
MaxThreads == 2
\* longest vector_results list given to _combine_results
MaxVectorLen == 2
\* longest keyword_results list given to _combine_results
MaxKeywordLen == 3
\* longest expression given to CalculatorTool.execute
MaxExprLen == 3
\* most lines in a response of llm.generate to query_expansion
MaxLines == 3
\* longest documents list given to rerank_results
MaxDocuments == 3
\* largest top_k given to rerank_results
MaxTopK == 3
\* most fragments of one answer in the round trips through the cache
MaxStreamed == 2
\* length of the one long document list given to rerank_results
ManyDocuments == 12
\* largest k_documents of the system whose retrieval steps are followed
MaxK == 2
\* most query variants whose searches are followed
MaxVariants == 2
\* most entries a vector search returns in the retrieval steps
MaxVectorHits == 2
\* most entries a keyword search returns in the retrieval steps
MaxKeywordHits == 1

(***************************************************************************)
(* Program constants.                                                      *)
(***************************************************************************)
\* AutonomousAgent.max_iterations
max_iterations == 3
\* WebSearchTool.execute(query, count=3): both back ends cut to count items
WebCount == 3
\* timedelta(hours=24) in get_response_cache; the clock counts hours
TTL == 24
\* expire=86400 seconds in set_response_cache, in hours
Expire == 24
\* tokens_used=500 in set_response_cache, cached.get('tokens', 500)
DefaultTokens == 500
\* range(0, len(cached['answer']), 10): the size of a replayed chunk
SliceSize == 10
\* variations[:3] in query_expansion: the most queries of one request
MaxQueries == 3
\* len(clean) > 10 in query_expansion
MinVariationLen == 10
\* vector_weight: float = 0.7 in hybrid_search, in tenths
DefaultWeight == 7

VARIABLES
    \* ---- AutonomousAgent.process_stream: one call ----
    pc,            \* position of the generator
    question,      \* the argument of the call
    iteration,     \* the loop variable of "for iteration in range(...)"
    tool_results,  \* the accumulated tool results
    plan,          \* the parsed decision of the current iteration
    final_prompt,  \* the synthesis prompt
    full_answer,   \* the fragments streamed so far
    agent_events,  \* the events yielded so far
    plan_calls,    \* history: llm.generate calls made for planning
    exec_calls,    \* history: tool.execute calls made
    parse_log,     \* history: per planning response, did json.loads accept it
    \* ---- StreamingRAGSystem and its CacheManager ----
    enable_cache,     \* self.enable_cache and self.cache
    response_cache,   \* CacheManager.response_cache: key -> cache_data
    stats_cache,      \* CacheManager.stats_cache: the counters
    now,              \* datetime.now(), in hours
    \* ---- StreamingRAGSystem.query_stream: the current call ----
    qs_pc,            \* position of the generator
    qs_args,          \* question, use_hybrid, use_rerank, use_expansion
    cached,           \* <<>> for None, else <<the cached response>>
    top_results,      \* the fused shortlist, while the reranker needs it
    final_docs,       \* the selected (doc, score) pairs
    qs_full_answer,   \* the text streamed so far
    events,           \* the events yielded so far
    calls,            \* history: calls this request made, per collaborator
    qs_repeat,        \* history: the same question completed within the TTL
    completed_at,     \* history: question -> when a miss-path call completed
    requests,         \* history: query_stream calls started
    ticks,            \* history: steps of the clock
    \* ---- concurrent clients of one CacheManager ----
    th_pc,            \* per client: its position in query_stream
    th_q,             \* per client: its question
    th_found,         \* per client: did its lookup find a live entry
    th_val,           \* per client: the counter values it has read
    th_taint,         \* history: per client, the counters whose value it
                      \* read before a clear_cache emptied the store
    th_ran,           \* history: per client, retrieval and generation runs
    lookups_done,     \* history: get_response_cache calls that returned
    cl_pc,            \* clear_cache: 0 not called, 1..4 the counter _init_stats
                      \* sets next, 5 returned
    taint,            \* history: per counter, does its value derive from
                      \* the time before the store was emptied
    \* ---- AdvancedRetriever._combine_results: one call ----
    fz_pc,            \* "ready" before the call, "done" after it
    fz_vector,        \* vector_results
    fz_keyword,       \* keyword_results
    fz_weight,        \* vector_weight, in tenths
    fz_out,           \* the list returned
    \* ---- CalculatorTool.execute: one call ----
    cx_pc,            \* "ready" before the call, "done" after it
    cx_expression,    \* the argument
    cx_out,           \* how the call ended: the dict returned, or the
                      \* exception that left it
    \* ---- AdvancedRetriever.query_expansion: one call ----
    qe_pc,            \* "ready" before the call, "done" after it
    qe_query,         \* the argument
    qe_llm,           \* what llm.generate does: raise, or the lines it returns
    qe_out,           \* how the call ended
    \* ---- AdvancedRetriever.rerank_results: one call ----
    rr_pc,            \* "ready" before the call, "done" after it
    rr_documents,     \* the argument
    rr_top_k,         \* the argument
    rr_model,         \* the cross-encoder: "unavailable", "raises" or "scores"
    rr_out,           \* how the call ended
    \* ---- the retrieval steps of one query_stream call (cache miss) ----
    rt_pc,            \* "search", "fuse", "select" or "done"
    rt_args,          \* use_hybrid, use_rerank, and k (self.k_documents)
    rt_left,          \* the queries not yet searched
    rt_results,       \* per query searched, the list its search returned
    rt_log,           \* history: the backend searches invoked, with their k
    rt_top,           \* top_results
    rt_final,         \* the final (doc, score) pairs
    rt_rerank         \* history: "none", or the path rerank_results took

agent_vars == <<pc, question, iteration, tool_results, plan, final_prompt,
                full_answer, agent_events, plan_calls, exec_calls, parse_log>>

cache_vars == <<enable_cache, response_cache, stats_cache>>

qs_vars == <<qs_pc, qs_args, cached, top_results, final_docs, qs_full_answer,
             events, calls, qs_repeat, completed_at, requests>>

stream_side == <<cache_vars, qs_vars, now, ticks>>

conc_vars == <<th_pc, th_q, th_found, th_val, th_taint, th_ran, lookups_done,
               cl_pc, taint>>

fuse_vars == <<fz_pc, fz_vector, fz_keyword, fz_weight, fz_out>>

calc_vars == <<cx_pc, cx_expression, cx_out>>

expand_vars == <<qe_pc, qe_query, qe_llm, qe_out>>

rerank_vars == <<rr_pc, rr_documents, rr_top_k, rr_model, rr_out>>

pipe_vars == <<rt_pc, rt_args, rt_left, rt_results, rt_log, rt_top, rt_final,
               rt_rerank>>

\* the functions that are modelled one call at a time
fn_vars == <<fuse_vars, calc_vars, expand_vars, rerank_vars, pipe_vars>>

vars == <<agent_vars, stream_side, conc_vars, fn_vars>>

(***************************************************************************)
(* Generic helpers.                                                        *)
(***************************************************************************)
Min(a, b) == IF a <= b THEN a ELSE b

SeqsUpTo(S, n) == UNION {[1..k -> S] : k \in 0..n}

\* Python seq[:n]
Take(s, n) == SubSeq(s, 1, Min(n, Len(s)))

(***************************************************************************)
(* The planner's response and its parsing.                                 *)
(* A response is a short text over four symbols: an opening brace, a       *)
(* closing brace, a word of prose, and "j", the members of a JSON object.  *)
(* body is the dict json.loads returns for the text "{" "j" "}".           *)
(***************************************************************************)
Symbols == {"{", "}", "w", "j"}

\* the values of "needs_tool" and "is_complete" in a decision
FlagVals == {"true", "false", "absent"}

\* the tools ToolRegistry.__init__ registers
RegisteredTools ==
    {"document_search", "calculator", "datetime", "general_knowledge", "web_search"}

\* the values of "tool": key absent, null, the empty string, a registered
\* name, a string that is no registered name, a JSON list (not hashable)
ToolVals == {"absent", "null", "", "no_such_tool", "unhashable"} \cup RegisteredTools

Bodies == [reasoning : BOOLEAN, tool : ToolVals, needs_tool : FlagVals,
           is_complete : FlagVals]

EmptyDict ==
    [reasoning |-> FALSE, tool |-> "absent", needs_tool |-> "absent",
     is_complete |-> "absent"]

\* {"needs_tool": False, "is_complete": True}
DefaultPlan ==
    [reasoning |-> FALSE, tool |-> "absent", needs_tool |-> "false",
     is_complete |-> "true"]

\* str.find: 0-based index of the first occurrence, -1 when there is none
Find(text, c) ==
    IF \E i \in 1..Len(text) : text[i] = c
    THEN (CHOOSE i \in 1..Len(text) :
              text[i] = c /\ \A k \in 1..(i - 1) : text[k] # c) - 1
    ELSE -1

\* str.rfind: 0-based index of the last occurrence, -1 when there is none
RFind(text, c) ==
    IF \E i \in 1..Len(text) : text[i] = c
    THEN (CHOOSE i \in 1..Len(text) :
              text[i] = c /\ \A k \in (i + 1)..Len(text) : text[k] # c) - 1
    ELSE -1

\* does json.loads accept this text
JsonLoadsOk(json_str) == json_str \in {<<"{", "}">>, <<"{", "j", "}">>}

\* json.loads on a text it accepts
JsonLoads(json_str, body) == IF json_str = <<"{", "}">> THEN EmptyDict ELSE body

\* does the response hold a span from the first "{" to the last "}" that
\* json.loads accepts
Parsable(response) ==
    LET start == Find(response, "{")
        end   == RFind(response, "}") + 1
    IN  start >= 0 /\ end > start /\ JsonLoadsOk(SubSeq(response, start + 1, end))

\* mutant: the span ends at the first "}" (find where the code uses rfind)
ParseJsonResponseFirstBrace(response, body) ==
    LET start == Find(response, "{")
        end   == Find(response, "}") + 1
    IN  IF start >= 0 /\ end > start
        THEN LET json_str == SubSeq(response, start + 1, end)
             IN  IF JsonLoadsOk(json_str)
                 THEN JsonLoads(json_str, body)
                 ELSE DefaultPlan
        ELSE DefaultPlan

\* AutonomousAgent._parse_json_response: the dict parsed from the span, or
\* the default decision when there is no span or json.loads raises
ParseJsonResponse(response, body) ==
    LET start == Find(response, "{")
        end   == RFind(response, "}") + 1
    IN  IF start >= 0 /\ end > start
        THEN LET json_str == SubSeq(response, start + 1, end)
             IN  IF JsonLoadsOk(json_str)
                 THEN JsonLoads(json_str, body)
                 ELSE DefaultPlan
        ELSE DefaultPlan

\* the responses the generation backend may return to a planning prompt
ResponseTexts == SeqsUpTo(Symbols, MaxRespLen)

\* a body accompanies every text that holds the object text "{" "j" "}"
BodiesFor(text) ==
    IF \E i \in 1..(Len(text) - 2) : SubSeq(text, i, i + 2) = <<"{", "j", "}">>
    THEN Bodies
    ELSE {EmptyDict}

\* no decision: before the first planning step and after the loop
NoPlan == [reasoning |-> FALSE, tool |-> "none", needs_tool |-> "none",
           is_complete |-> "none"]

\* plan.get('is_complete', False)
IsComplete(p) == p.is_complete = "true"

\* plan.get('needs_tool', False)
NeedsTool(p) == p.needs_tool = "true"

\* mutant: only the presence of the key is tested
HasToolKeyOnly(p) == p.tool # "absent"

\* 'tool' in plan and plan['tool']
HasTool(p) == p.tool \notin {"absent", "null", ""}

(***************************************************************************)
(* Tools.  A result carries the step that produced it, so that what the    *)
(* prompt shows can be told apart: data stands for the fields of a         *)
(* successful result, error for the error text of a failed one.            *)
(***************************************************************************)
\* ToolRegistry.get_tool: the tool, or None
None == "None"

GetTool(name) == IF name \in RegisteredTools THEN name ELSE None

\* the "except" branch of an execute: success False, an error text, the tool
Failed(tool, step) ==
    [tool |-> tool, success |-> FALSE, data |-> 0, error |-> step,
     results |-> 0, sources |-> <<>>]

\* the "try" branch of an execute; n web results, the sources of a search
Succeeded(tool, step, n, sources) ==
    [tool |-> tool, success |-> TRUE, data |-> step, error |-> 0,
     results |-> n, sources |-> sources]

\* what tool.execute may return at a step
Execute(tool, step) ==
    {Failed(tool, step)} \cup
    {Succeeded(tool, step, n, src) :
        n \in (IF tool = "web_search" THEN 0..WebCount ELSE {0}),
        src \in (IF tool = "document_search" THEN {<<>>, <<step>>} ELSE {<<>>})}

\* the dispatch on tool_name in process_stream
Dispatch(tool_name, step) ==
    IF tool_name \in RegisteredTools
    THEN Execute(tool_name, step)
    ELSE {[tool |-> "unknown", success |-> FALSE, data |-> 0, error |-> step,
           results |-> 0, sources |-> <<>>]}

\* mutant: the loop runs one iteration too many
LoopContinuesOffByOne(i) == i + 1 <= max_iterations

\* "for iteration in range(self.max_iterations)": is there another iteration
LoopContinues(i) == i + 1 < max_iterations

\* mutant: the break after a failed result is missing
AfterToolResultNoBreak(success, i) ==
    [pc |-> IF LoopContinues(i) THEN "plan" ELSE "synth", iteration |-> i + 1]

\* after tool_results.append(result): a success goes on to the next
\* iteration, a failure breaks the loop
AfterToolResult(success, i) ==
    IF success
    THEN [pc |-> IF LoopContinues(i) THEN "plan" ELSE "synth", iteration |-> i + 1]
    ELSE [pc |-> "synth", iteration |-> i]

(***************************************************************************)
(* The synthesis prompt: the question and the lines of results_text.       *)
(***************************************************************************)
Line(label, of, idx) == [label |-> label, of |-> of, idx |-> idx]

\* mutant: the calculator branch does not test success
ResultLinesNoSuccessCheck(r) ==
    IF r.tool = "calculator"
    THEN <<Line("calculo", r.data, 0)>>
    ELSE IF r.tool = "document_search" /\ r.success
    THEN <<Line("documentos", r.data, 0)>>
    ELSE IF r.tool = "datetime" /\ r.success
    THEN <<Line("data_hora", r.data, 0)>>
    ELSE IF r.tool = "general_knowledge" /\ r.success
    THEN <<Line("conhecimento", r.data, 0)>>
    ELSE IF r.tool = "web_search" /\ r.success
    THEN <<Line("web_search", r.data, r.results)>> \o
         [i \in 1..Min(3, r.results) |-> Line("web_item", r.data, i)]
    ELSE <<>>

\* the lines one result adds to results_text
ResultLines(r) ==
    IF r.tool = "calculator" /\ r.success
    THEN <<Line("calculo", r.data, 0)>>
    ELSE IF r.tool = "document_search" /\ r.success
    THEN <<Line("documentos", r.data, 0)>>
    ELSE IF r.tool = "datetime" /\ r.success
    THEN <<Line("data_hora", r.data, 0)>>
    ELSE IF r.tool = "general_knowledge" /\ r.success
    THEN <<Line("conhecimento", r.data, 0)>>
    ELSE IF r.tool = "web_search" /\ r.success
    THEN <<Line("web_search", r.data, r.results)>> \o
         [i \in 1..Min(3, r.results) |-> Line("web_item", r.data, i)]
    ELSE <<>>

RECURSIVE ResultsText(_)
ResultsText(results) ==
    IF results = <<>> THEN <<>>
    ELSE ResultLines(Head(results)) \o ResultsText(Tail(results))

\* AutonomousAgent._create_final_answer_prompt
CreateFinalAnswerPrompt(q, results) ==
    [kind |-> "results", question |-> q, results_text |-> ResultsText(results)]

\* f"Responda:\n\n{question}"
RawPrompt(q) == [kind |-> "raw", question |-> q, results_text |-> <<>>]

NoPrompt == [kind |-> "none", question |-> <<>>, results_text |-> <<>>]

Event(type, data) == [type |-> type, data |-> data]

(***************************************************************************)
(* Inputs.                                                                 *)
(***************************************************************************)
\* questions, as texts over a small alphabet: "A" and "a " differ only in
\* case and surrounding blanks
Questions == {<<"A">>, <<"a", " ">>}

\* the questions put to the agent: "b" is another question
AgentQuestions == {<<"A">>, <<"b">>}

\* a text of n characters c
Rep(c, n) == [i \in 1..n |-> c]

\* the fragments a generate_stream call may produce: texts of 4 and of 11
\* characters
Fragments == {Rep("x", 4), Rep("y", 11)}

\* the documents of the index; d1 and d2 agree on their first 100 characters
Docs == {"d1", "d2", "d3"}

\* doc.page_content[:100]
Fingerprint(doc) == IF doc \in {"d1", "d2"} THEN "d1_d2" ELSE doc

\* the scores a search may attach to a document, in tenths
Scores == {3, 7}

(***************************************************************************)
(* AutonomousAgent.process_stream                                          *)
(***************************************************************************)
\* up to the first yield: the opening status event, tool_results = []
AgentStart ==
    /\ pc = "start"
    /\ UNCHANGED <<stream_side, conc_vars, fn_vars>>
    /\ agent_events' = Append(agent_events, Event("status", "iniciando"))
    /\ tool_results' = <<>>
    /\ iteration' = 0
    /\ pc' = IF max_iterations > 0 THEN "plan" ELSE "synth"
    /\ UNCHANGED <<question, plan, final_prompt, full_answer, plan_calls,
                   exec_calls, parse_log>>

\* one planning step: the planning request, the parse, the decision, up to
\* the yield of the "Passo" status event or the end of the loop
AgentPlan ==
    /\ pc = "plan"
    /\ UNCHANGED <<stream_side, conc_vars, fn_vars>>
    /\ plan_calls' = plan_calls + 1
    /\ \/ \* llm.generate raises: the except branch breaks the loop
          /\ plan' = NoPlan
          /\ pc' = "synth"
          /\ UNCHANGED <<agent_events, parse_log>>
       \/ \E response \in ResponseTexts : \E body \in BodiesFor(response) :
            LET p  == ParseJsonResponse(response, body)
                e1 == IF p.reasoning /\ iteration = 0
                      THEN Append(agent_events, Event("reasoning", "reasoning"))
                      ELSE agent_events
            IN  /\ parse_log' = Append(parse_log, Parsable(response))
                /\ plan' = p
                /\ IF IsComplete(p) \/ ~NeedsTool(p)
                   THEN /\ pc' = "synth"
                        /\ agent_events' = e1
                   ELSE IF HasTool(p)
                   THEN /\ pc' = "tool"
                        /\ agent_events' = Append(e1, Event("status", p.tool))
                   ELSE /\ pc' = "synth"
                        /\ agent_events' = e1
    /\ UNCHANGED <<question, iteration, tool_results, final_prompt, full_answer,
                   exec_calls>>

\* after the "Passo" status event: the lookup, the execution and the
\* tool_result event, up to the next planning step or the end of the loop
AgentToolStep ==
    /\ pc = "tool"
    /\ UNCHANGED <<stream_side, conc_vars, fn_vars>>
    /\ plan' = NoPlan
    /\ IF plan.tool = "unhashable"
       THEN \* dict.get raises TypeError: the except branch breaks the loop
            /\ pc' = "synth"
            /\ UNCHANGED <<iteration, tool_results, agent_events, exec_calls>>
       ELSE IF GetTool(plan.tool) # None
       THEN \E result \in Dispatch(plan.tool, iteration + 1) :
              /\ tool_results' = Append(tool_results, result)
              /\ exec_calls' = exec_calls + 1
              /\ agent_events' =
                    Append(agent_events,
                           Event("tool_result", IF result.success THEN "ok" ELSE "erro"))
              /\ iteration' = AfterToolResult(result.success, iteration).iteration
              /\ pc' = AfterToolResult(result.success, iteration).pc
       ELSE \* no such tool: the iteration ends and the loop goes on
            /\ iteration' = iteration + 1
            /\ pc' = IF LoopContinues(iteration) THEN "plan" ELSE "synth"
            /\ UNCHANGED <<tool_results, agent_events, exec_calls>>
    /\ UNCHANGED <<question, final_prompt, full_answer, plan_calls, parse_log>>

\* after the loop: the "Sintetizando" status event and the final prompt
AgentSynthesize ==
    /\ pc = "synth"
    /\ UNCHANGED <<stream_side, conc_vars, fn_vars>>
    /\ agent_events' = Append(agent_events, Event("status", "sintetizando"))
    /\ final_prompt' = IF tool_results # <<>>
                       THEN CreateFinalAnswerPrompt(question, tool_results)
                       ELSE RawPrompt(question)
    /\ full_answer' = <<>>
    /\ plan' = NoPlan
    /\ pc' = "stream"
    /\ UNCHANGED <<question, iteration, tool_results, plan_calls, exec_calls,
                   parse_log>>

\* one fragment of llm.generate_stream(final_prompt), forwarded as a chunk
AgentStreamChunk ==
    /\ pc = "stream"
    /\ UNCHANGED <<stream_side, conc_vars, fn_vars>>
    /\ Len(full_answer) < MaxFragments
    /\ \E chunk \in Fragments :
         /\ full_answer' = Append(full_answer, chunk)
         /\ agent_events' = Append(agent_events, Event("chunk", chunk))
    /\ UNCHANGED <<pc, question, iteration, tool_results, plan, final_prompt,
                   plan_calls, exec_calls, parse_log>>

\* the sources of the document_search results
RECURSIVE AgentSources(_)
AgentSources(results) ==
    IF results = <<>> THEN <<>>
    ELSE (IF Head(results).tool = "document_search" /\ Head(results).success
          THEN Head(results).sources ELSE <<>>) \o AgentSources(Tail(results))

\* 'tools_used': [r['tool'] for r in tool_results]; its length is the
\* 'iterations' of the metadata event
ToolsUsed(results) == [i \in 1..Len(results) |-> results[i].tool]

\* the stream is exhausted: the metadata event and, if any, the sources
AgentFinish ==
    /\ pc = "stream"
    /\ pc' = "done"
    /\ UNCHANGED <<stream_side, conc_vars, fn_vars>>
    /\ LET meta == Event("metadata", ToolsUsed(tool_results))
           srcs == AgentSources(tool_results)
       IN  agent_events' =
             IF srcs # <<>>
             THEN agent_events \o <<meta, Event("sources", "sources")>>
             ELSE Append(agent_events, meta)
    /\ UNCHANGED <<question, iteration, tool_results, plan, final_prompt,
                   full_answer, plan_calls, exec_calls, parse_log>>

AgentInit(questions) ==
    /\ pc = "start"
    /\ question \in questions
    /\ iteration = 0
    /\ tool_results = <<>>
    /\ plan = NoPlan
    /\ final_prompt = NoPrompt
    /\ full_answer = <<>>
    /\ agent_events = <<>>
    /\ plan_calls = 0
    /\ exec_calls = 0
    /\ parse_log = <<>>


AgentNext ==
    \/ AgentStart
    \/ AgentPlan
    \/ AgentToolStep
    \/ AgentSynthesize
    \/ AgentStreamChunk
    \/ AgentFinish

(***************************************************************************)
(* CacheManager                                                            *)
(***************************************************************************)
\* str.lower on the alphabet of the questions
Lower(text) == [i \in 1..Len(text) |-> IF text[i] = "A" THEN "a" ELSE text[i]]

RECURSIVE LStrip(_)
LStrip(text) ==
    IF text # <<>> /\ Head(text) = " " THEN LStrip(Tail(text)) ELSE text

RECURSIVE RStrip(_)
RStrip(text) ==
    IF text # <<>> /\ text[Len(text)] = " "
    THEN RStrip(SubSeq(text, 1, Len(text) - 1))
    ELSE text

\* str.strip
Strip(text) == RStrip(LStrip(text))

\* CacheManager._hash_content: sha256 of the content, taken as injective
HashContent(content) == <<"sha256", content>>

\* a key derived from the question as it was typed
QuestionHashRaw(q) == HashContent(q)

\* question_hash = self._hash_content(question.lower().strip())
QuestionHash(q) == HashContent(Strip(Lower(q)))

\* diskcache Cache.get: <<>> when the key is absent or its expire time has
\* passed, else <<the value>>
StoreGet(store, key, t) ==
    IF key \in DOMAIN store /\ store[key].expire_time > t
    THEN <<store[key].value>>
    ELSE <<>>

\* diskcache Cache.set(key, value, expire=...)
StoreSet(store, key, value, t, expire) ==
    [k \in DOMAIN store \cup {key} |->
        IF k = key THEN [value |-> value, expire_time |-> t + expire] ELSE store[k]]

\* a liveness test that gives up an hour early
IsLiveHourShort(cache_time, t) == t - cache_time < TTL - 1

\* is a cached entry still live: datetime.now() - cache_time < timedelta(hours=24)
IsLive(cache_time, t) == t - cache_time < TTL

\* a lookup that forgets to count the miss
GetResponseCacheNoMissCount(q, store, stats, t) ==
    LET got == StoreGet(store, QuestionHash(q), t)
    IN  IF got # <<>> /\ IsLive(got[1].timestamp, t)
        THEN [result |-> <<got[1].response>>,
              stats  |-> [stats EXCEPT
                            !.response_hits = @ + 1,
                            !.estimated_cost_saved = @ + 1,
                            !.total_tokens_saved = @ + got[1].tokens]]
        ELSE [result |-> <<>>, stats |-> stats]

\* CacheManager.get_response_cache: the response (<<>> for None) and the
\* counters after the call
GetResponseCache(q, store, stats, t) ==
    LET got == StoreGet(store, QuestionHash(q), t)
    IN  IF got # <<>> /\ IsLive(got[1].timestamp, t)
        THEN [result |-> <<got[1].response>>,
              stats  |-> [stats EXCEPT
                            !.response_hits = @ + 1,
                            !.estimated_cost_saved = @ + 1,
                            !.total_tokens_saved = @ + got[1].tokens]]
        ELSE [result |-> <<>>,
              stats  |-> [stats EXCEPT !.response_misses = @ + 1]]

\* CacheManager.set_response_cache: the store after the call
SetResponseCache(q, response, store, t) ==
    StoreSet(store, QuestionHash(q),
             [response |-> response, timestamp |-> t, tokens |-> DefaultTokens],
             t, Expire)

\* CacheManager._init_stats; estimated_cost_saved counts hundredths
InitStats ==
    [response_hits |-> 0, response_misses |-> 0, total_tokens_saved |-> 0,
     estimated_cost_saved |-> 0]

(***************************************************************************)
(* Retrieval: the searches, the fusion across queries, the reranker.       *)
(***************************************************************************)
\* a search result: <<doc, score>>
Pairs == Docs \X Scores

\* one list a search may return for k = 3 * k_documents: no document twice;
\* hybrid_search returns one entry per fingerprint, best score first
ResultListOk(list, use_hybrid) ==
    /\ Len(list) <= 3 * k_documents
    /\ \A i, j \in 1..Len(list) : i # j => list[i][1] # list[j][1]
    /\ use_hybrid =>
         /\ \A i, j \in 1..Len(list) :
                i # j => Fingerprint(list[i][1]) # Fingerprint(list[j][1])
         /\ \A i \in 1..(Len(list) - 1) : list[i][2] >= list[i + 1][2]

\* is all_results the concatenation of the result lists of n queries
RECURSIVE IsConcat(_, _, _)
IsConcat(all_results, n, use_hybrid) ==
    \E i \in 0..Len(all_results) :
        /\ ResultListOk(SubSeq(all_results, 1, i), use_hybrid)
        /\ IF n = 1
           THEN i = Len(all_results)
           ELSE IsConcat(SubSeq(all_results, i + 1, Len(all_results)), n - 1,
                         use_hybrid)

\* what the searches of n queries may leave in all_results
AllResults(n, use_hybrid) ==
    {r \in SeqsUpTo(Pairs, MaxAllResults) : IsConcat(r, n, use_hybrid)}

\* the "seen" dict of query_stream, in insertion order: per fingerprint the
\* first entry with the highest score
RECURSIVE Dedupe(_, _)
Dedupe(results, seen) ==
    IF results = <<>> THEN seen
    ELSE LET r   == Head(results)
             idx == {i \in 1..Len(seen) :
                        Fingerprint(seen[i][1]) = Fingerprint(r[1])}
         IN  IF idx = {}
             THEN Dedupe(Tail(results), Append(seen, r))
             ELSE LET i == CHOOSE i \in idx : TRUE
                  IN  IF r[2] > seen[i][2]
                      THEN Dedupe(Tail(results), [seen EXCEPT ![i] = r])
                      ELSE Dedupe(Tail(results), seen)

\* list.sort(key=score, reverse=True) is stable: an entry goes behind the
\* entries whose score is not smaller
InsertDesc(sorted, x) ==
    LET n == Cardinality({i \in 1..Len(sorted) : sorted[i][2] >= x[2]})
    IN  SubSeq(sorted, 1, n) \o <<x>> \o SubSeq(sorted, n + 1, Len(sorted))

RECURSIVE SortDescFrom(_, _)
SortDescFrom(rest, sorted) ==
    IF rest = <<>> THEN sorted
    ELSE SortDescFrom(Tail(rest), InsertDesc(sorted, Head(rest)))

SortDesc(list) == SortDescFrom(list, <<>>)

\* unique_results sorted, cut to 2 * k_documents
TopResults(all_results) ==
    Take(SortDesc(Dedupe(all_results, <<>>)), 2 * k_documents)

\* does query_stream call the reranker
NeedsRerank(use_rerank, top) == use_rerank /\ Len(top) > k_documents

DocsOf(list) == [i \in 1..Len(list) |-> list[i][1]]

\* a fallback that forgets the cut: every document, scored by position
RerankFallbackUncut(documents, top_k) ==
    [i \in 1..Len(documents) |-> <<documents[i], 10 - (i - 1)>>]

\* AdvancedRetriever.rerank_results without a usable model: the first top_k
\* documents, scored 1.0 - 0.1 * i, in tenths
RerankFallback(documents, top_k) ==
    [i \in 1..Min(top_k, Len(documents)) |-> <<documents[i], 10 - (i - 1)>>]

\* AdvancedRetriever.rerank_results: the fallback, or the documents under
\* the scores a cross-encoder gives them, best first, cut to top_k
RerankResults(documents, top_k) ==
    {RerankFallback(documents, top_k)} \cup
    {Take(SortDesc([i \in 1..Len(documents) |-> <<documents[i], f[i]>>]), top_k) :
        f \in [1..Len(documents) -> Scores]}

(***************************************************************************)
(* StreamingRAGSystem.query_stream                                         *)
(***************************************************************************)
\* "Não encontrei documentos relevantes."
NoDocsMessage == <<"n", "o", "d", "o", "c", "s">>

\* f"streaming{'_hybrid' if use_hybrid else ''}{'_rerank' if use_rerank else ''}"
Method(use_hybrid, use_rerank) ==
    IF use_hybrid
    THEN (IF use_rerank THEN "streaming_hybrid_rerank" ELSE "streaming_hybrid")
    ELSE (IF use_rerank THEN "streaming_rerank" ELSE "streaming")

RECURSIVE SumScores(_)
SumScores(list) == IF list = <<>> THEN 0 ELSE Head(list)[2] + SumScores(Tail(list))

\* sum(final_scores) / len(final_scores), as a fraction of tenths
Confidence(list) == [num |-> SumScores(list), den |-> Len(list)]

\* fragments: what llm.generate_stream has produced so far
NoCalls == [search |-> 0, rerank |-> 0, generate |-> 0, generate_stream |-> 0,
            cache_write |-> 0, fragments |-> <<>>]

ArgSets == [question : Questions, use_hybrid : BOOLEAN, use_rerank : BOOLEAN,
            use_expansion : BOOLEAN]

CountType(evs, type) == Cardinality({i \in 1..Len(evs) : evs[i].type = type})

\* a slice that forgets its upper end: answer[i:]
SliceToEnd(answer, i) == SubSeq(answer, i + 1, Len(answer))

\* range(0, len(answer), 10) with answer[i:i+10]: the slice at offset i
Slice(answer, i) == SubSeq(answer, i + 1, Min(i + SliceSize, Len(answer)))

\* the positions at which no query_stream call is under way: none was made
\* yet, the last one returned, its consumer closed it, or it raised
Returned == {"idle", "done", "cancelled", "raised_read", "raised_search",
             "raised_write", "raised_generate"}

\* the cache check, up to the first yield
QueryStart ==
    /\ qs_pc \in Returned
    /\ requests < MaxRequests
    /\ requests' = requests + 1
    /\ \E args \in ArgSets :
         /\ qs_args' = args
         /\ qs_repeat' = /\ args.question \in DOMAIN completed_at
                         /\ now - completed_at[args.question] < TTL
         /\ IF enable_cache
            THEN LET g == GetResponseCache(args.question, response_cache,
                                           stats_cache, now)
                 IN  /\ stats_cache' = g.stats
                     /\ cached' = g.result
            ELSE /\ cached' = <<>>
                 /\ UNCHANGED stats_cache
    /\ IF cached' # <<>>
       THEN /\ events' = <<Event("status", "cache_hit")>>
            /\ qs_pc' = "replay"
       ELSE /\ events' = <<Event("status", "buscando")>>
            /\ qs_pc' = "buscando"
    /\ top_results' = <<>>
    /\ final_docs' = <<>>
    /\ qs_full_answer' = <<>>
    /\ calls' = NoCalls
    /\ UNCHANGED <<agent_vars, conc_vars, fn_vars, enable_cache, response_cache, completed_at, now,
                   ticks>>

\* the cache check when response_cache.get raises (a locked or corrupt
\* store): get_response_cache has no handler and query_stream none around
\* the call, so the exception leaves the generator at its first next()
QueryCacheReadRaises ==
    /\ qs_pc \in Returned
    /\ requests < MaxRequests
    /\ enable_cache
    /\ requests' = requests + 1
    /\ \E args \in ArgSets :
         /\ qs_args' = args
         /\ qs_repeat' = /\ args.question \in DOMAIN completed_at
                         /\ now - completed_at[args.question] < TTL
    /\ cached' = <<>>
    /\ events' = <<>>
    /\ qs_pc' = "raised_read"
    /\ top_results' = <<>>
    /\ final_docs' = <<>>
    /\ qs_full_answer' = <<>>
    /\ calls' = NoCalls
    /\ UNCHANGED <<agent_vars, conc_vars, fn_vars, cache_vars, completed_at, now, ticks>>

\* the offset of the next slice of the replay
ReplayPos == SliceSize * CountType(events, "chunk")

\* one 10-character slice of the cached answer
QueryReplayChunk ==
    /\ qs_pc = "replay"
    /\ ReplayPos < Len(cached[1].answer)
    /\ events' = Append(events, Event("chunk", Slice(cached[1].answer, ReplayPos)))
    /\ UNCHANGED <<agent_vars, conc_vars, fn_vars, cache_vars, now, ticks, qs_pc, qs_args, cached,
                   top_results, final_docs, qs_full_answer, calls, qs_repeat,
                   completed_at, requests>>

\* a replay that reports the method stored in the entry
ReplayMethodStored(response) == response.method

\* 'method': 'cached'
ReplayMethod(response) == "cached"

\* the slices are exhausted: the metadata event
QueryReplayMetadata ==
    /\ qs_pc = "replay"
    /\ ReplayPos >= Len(cached[1].answer)
    /\ events' = Append(events,
                        Event("metadata", [confidence |-> cached[1].confidence,
                                           method |-> ReplayMethod(cached[1])]))
    /\ qs_pc' = "replay_sources"
    /\ UNCHANGED <<agent_vars, conc_vars, fn_vars, cache_vars, now, ticks, qs_args, cached,
                   top_results, final_docs, qs_full_answer, calls, qs_repeat,
                   completed_at, requests>>

\* the sources event of the replay, and the return
QueryReplaySources ==
    /\ qs_pc = "replay_sources"
    /\ events' = Append(events, Event("sources", cached[1].sources))
    /\ qs_pc' = "done"
    /\ UNCHANGED <<agent_vars, conc_vars, fn_vars, cache_vars, now, ticks, qs_args, cached,
                   top_results, final_docs, qs_full_answer, calls, qs_repeat,
                   completed_at, requests>>

\* use_expansion: the "Expandindo" status event
QueryExpandStatus ==
    /\ qs_pc = "buscando"
    /\ qs_args.use_expansion
    /\ events' = Append(events, Event("status", "expandindo"))
    /\ qs_pc' = "expandindo"
    /\ UNCHANGED <<agent_vars, conc_vars, fn_vars, cache_vars, now, ticks, qs_args, cached,
                   top_results, final_docs, qs_full_answer, calls, qs_repeat,
                   completed_at, requests>>

\* a test that never sees an empty selection
NoDocsNever(selected) == FALSE

\* if not final_docs
NoDocs(selected) == selected = <<>>

\* the selection, and the event that follows it
SelectAndAnnounce(selected) ==
    /\ final_docs' = selected
    /\ IF NoDocs(selected)
       THEN /\ events' = Append(events, Event("chunk", NoDocsMessage))
            /\ qs_pc' = "done"
       ELSE /\ events' = Append(events, Event("status", "gerando"))
            /\ qs_pc' = "gerando"

\* the expansion (if asked for), the searches, the fusion across queries,
\* up to the "Reranking" status event, the "Gerando" status event or the
\* "no documents" chunk
QueryRetrieve ==
    /\ \/ qs_pc = "buscando" /\ ~qs_args.use_expansion
       \/ qs_pc = "expandindo"
    /\ \E n \in (IF qs_args.use_expansion THEN 1..MaxQueries ELSE {1}) :
       \E all_results \in AllResults(n, qs_args.use_hybrid) :
         LET top == TopResults(all_results)
         IN  /\ calls' = [calls EXCEPT
                            !.generate = @ + (IF qs_args.use_expansion THEN 1 ELSE 0),
                            !.search = @ + n]
             /\ IF NeedsRerank(qs_args.use_rerank, top)
                THEN /\ events' = Append(events, Event("status", "reranking"))
                     /\ qs_pc' = "reranking"
                     /\ top_results' = top
                     /\ UNCHANGED final_docs
                ELSE /\ SelectAndAnnounce(Take(top, k_documents))
                     /\ top_results' = <<>>
    /\ UNCHANGED <<agent_vars, conc_vars, fn_vars, cache_vars, now, ticks, qs_args, cached,
                   qs_full_answer, qs_repeat, completed_at, requests>>

\* the searches when the vector search raises (similarity_search_with_score
\* raises ValueError for a store that is not initialised): neither
\* hybrid_search nor query_stream handles it, so the exception leaves the
\* generator
QuerySearchRaises ==
    /\ \/ qs_pc = "buscando" /\ ~qs_args.use_expansion
       \/ qs_pc = "expandindo"
    /\ calls' = [calls EXCEPT
                   !.generate = @ + (IF qs_args.use_expansion THEN 1 ELSE 0),
                   !.search = @ + 1]
    /\ qs_pc' = "raised_search"
    /\ UNCHANGED <<agent_vars, conc_vars, fn_vars, cache_vars, now, ticks, qs_args, cached,
                   top_results, final_docs, qs_full_answer, events, qs_repeat,
                   completed_at, requests>>

\* after the "Reranking" status event: the reranker and the selection
QueryRerank ==
    /\ qs_pc = "reranking"
    /\ \E reranked \in RerankResults(DocsOf(top_results), k_documents) :
         SelectAndAnnounce(reranked)
    /\ calls' = [calls EXCEPT !.rerank = @ + 1]
    /\ top_results' = <<>>
    /\ UNCHANGED <<agent_vars, conc_vars, fn_vars, cache_vars, now, ticks, qs_args, cached,
                   qs_full_answer, qs_repeat, completed_at, requests>>

\* llm.generate_stream is called when the generator resumes after "Gerando"
StreamCalls == [calls EXCEPT !.generate_stream =
                                 IF qs_pc = "gerando" THEN @ + 1 ELSE @]

\* an accumulation that keeps the last fragment only
AccumulateLast(answer, chunk) == chunk

\* full_answer += chunk
Accumulate(answer, chunk) == answer \o chunk

\* one fragment of llm.generate_stream(prompt), forwarded as a chunk, of a
\* stream that has at most limit fragments
StreamChunkUpTo(limit) ==
    /\ qs_pc \in {"gerando", "streaming"}
    /\ CountType(events, "chunk") < limit
    /\ \E chunk \in Fragments :
         /\ qs_full_answer' = Accumulate(qs_full_answer, chunk)
         /\ events' = Append(events, Event("chunk", chunk))
         /\ calls' = [StreamCalls EXCEPT !.fragments = Append(@, chunk)]
    /\ qs_pc' = "streaming"
    /\ UNCHANGED <<agent_vars, conc_vars, fn_vars, cache_vars, now, ticks, qs_args, cached,
                   top_results, final_docs, qs_repeat, completed_at, requests>>

QueryStreamChunk == StreamChunkUpTo(MaxFragments)

QueryStreamLong == StreamChunkUpTo(MaxStreamed)

\* llm.generate_stream raises, at its call or after some fragments: the
\* loop of query_stream stands in no try, so the exception leaves the
\* generator and no further event is yielded
QueryGenerateRaises ==
    /\ qs_pc \in {"gerando", "streaming"}
    /\ calls' = StreamCalls
    /\ qs_pc' = "raised_generate"
    /\ UNCHANGED <<agent_vars, conc_vars, fn_vars, cache_vars, now, ticks, qs_args, cached,
                   top_results, final_docs, qs_full_answer, events, qs_repeat,
                   completed_at, requests>>

\* the stream is exhausted: the metadata event
QueryMetadata ==
    /\ qs_pc \in {"gerando", "streaming"}
    /\ events' = Append(events,
                        Event("metadata",
                              [confidence |-> Confidence(final_docs),
                               method |-> Method(qs_args.use_hybrid,
                                                 qs_args.use_rerank)]))
    /\ calls' = StreamCalls
    /\ qs_pc' = "metadata"
    /\ UNCHANGED <<agent_vars, conc_vars, fn_vars, cache_vars, now, ticks, qs_args, cached,
                   top_results, final_docs, qs_full_answer, qs_repeat,
                   completed_at, requests>>

\* a sources list that is always empty
SourcesOfNone(selected) == <<>>

\* sources = [{...} for doc, score in zip(final_docs, final_scores)]
SourcesOf(selected) == selected

\* the sources event
QuerySources ==
    /\ qs_pc = "metadata"
    /\ events' = Append(events, Event("sources", SourcesOf(final_docs)))
    /\ qs_pc' = "sources"
    /\ UNCHANGED <<agent_vars, conc_vars, fn_vars, cache_vars, now, ticks, qs_args, cached,
                   top_results, final_docs, qs_full_answer, calls, qs_repeat,
                   completed_at, requests>>

\* after the sources event: the cache write, and the return
QueryCacheWrite ==
    /\ qs_pc = "sources"
    /\ IF enable_cache
       THEN /\ response_cache' =
                 SetResponseCache(qs_args.question,
                                  [answer |-> qs_full_answer,
                                   confidence |-> Confidence(final_docs),
                                   method |-> Method(qs_args.use_hybrid,
                                                     qs_args.use_rerank),
                                   sources |-> final_docs],
                                  response_cache, now)
            /\ calls' = [calls EXCEPT !.cache_write = @ + 1]
       ELSE UNCHANGED <<response_cache, calls>>
    /\ completed_at' =
         [q \in DOMAIN completed_at \cup {qs_args.question} |->
             IF q = qs_args.question THEN now ELSE completed_at[q]]
    /\ qs_pc' = "done"
    /\ UNCHANGED <<agent_vars, conc_vars, fn_vars, enable_cache, stats_cache, now, ticks, qs_args,
                   cached, top_results, final_docs, qs_full_answer, events,
                   qs_repeat, requests>>

\* after the sources event, when response_cache.set raises: the exception
\* leaves the generator at the next() that follows the sources event
QueryCacheWriteRaises ==
    /\ qs_pc = "sources"
    /\ enable_cache
    /\ qs_pc' = "raised_write"
    /\ UNCHANGED <<agent_vars, conc_vars, fn_vars, cache_vars, now, ticks, qs_args, cached,
                   top_results, final_docs, qs_full_answer, events, calls,
                   qs_repeat, completed_at, requests>>

\* the yields of query_stream at which the generator can be suspended
Suspended == {"replay", "replay_sources", "buscando", "expandindo",
              "reranking", "gerando", "streaming", "metadata", "sources"}

\* a close that runs the cache write all the same
CacheAfterCloseWrites(q, response, store, t) ==
    SetResponseCache(q, response, store, t)

\* generator.close(): GeneratorExit is raised at the yield the generator is
\* suspended at; query_stream has no try/finally, so nothing below that
\* yield runs and the store stays as it is
CacheAfterClose(q, response, store, t) == store

\* the consumer stops consuming: the generator is closed (or dropped) at the
\* yield it is suspended at
QueryCancel ==
    /\ qs_pc \in Suspended
    /\ qs_pc' = "cancelled"
    /\ response_cache' =
         CacheAfterClose(qs_args.question,
                         [answer |-> qs_full_answer,
                          confidence |-> Confidence(final_docs),
                          method |-> Method(qs_args.use_hybrid,
                                            qs_args.use_rerank),
                          sources |-> final_docs],
                         response_cache, now)
    /\ UNCHANGED <<agent_vars, conc_vars, fn_vars, enable_cache, stats_cache, now, ticks, qs_args,
                   cached, top_results, final_docs, qs_full_answer, events,
                   calls, qs_repeat, completed_at, requests>>

\* the steps of the clock: an hour less than the TTL, an hour more
TickSteps == {TTL - 1, TTL + 1}

\* time passes.  A request reads the clock at its cache check and at its
\* cache write only, so the steps of the clock are taken between requests
\* and before the cache write.
Tick ==
    /\ qs_pc \in Returned \cup {"sources"}
    /\ ticks < MaxTicks
    /\ ticks' = ticks + 1
    /\ \E d \in TickSteps : now' = now + d
    /\ UNCHANGED <<agent_vars, conc_vars, fn_vars, cache_vars, qs_vars>>

StreamInit(enabled) ==
    /\ enable_cache \in enabled
    /\ response_cache = [k \in {} |-> 0]
    /\ stats_cache = InitStats
    /\ now = 0
    /\ qs_pc = "idle"
    /\ qs_args = [question |-> <<>>, use_hybrid |-> TRUE, use_rerank |-> TRUE,
                  use_expansion |-> FALSE]
    /\ cached = <<>>
    /\ top_results = <<>>
    /\ final_docs = <<>>
    /\ qs_full_answer = <<>>
    /\ events = <<>>
    /\ calls = NoCalls
    /\ qs_repeat = FALSE
    /\ completed_at = [q \in {} |-> 0]
    /\ requests = 0
    /\ ticks = 0

StreamNext ==
    \/ QueryStart
    \/ QueryReplayChunk
    \/ QueryReplayMetadata
    \/ QueryReplaySources
    \/ QueryExpandStatus
    \/ QueryRetrieve
    \/ QueryRerank
    \/ QueryStreamChunk
    \/ QueryMetadata
    \/ QuerySources
    \/ QueryCacheWrite
    \/ QueryCacheReadRaises
    \/ QuerySearchRaises
    \/ QueryCacheWriteRaises
    \/ QueryCancel
    \/ Tick

\* query_stream calls, one after the other, while time passes
(***************************************************************************)
(* Concurrent clients of one CacheManager: query_stream calls that run     *)
(* side by side (threads of one process, or processes that share the       *)
(* ./cache directory) and one clear_cache call.  Every diskcache get and   *)
(* set is one step; what lies between two of them can be interleaved.      *)
(***************************************************************************)
Threads == 1..MaxThreads

\* the counters of stats_cache that the response cache maintains
Counters == {"response_hits", "response_misses", "estimated_cost_saved",
             "total_tokens_saved"}

\* the positions between "cached = self.response_cache.get(...)" and the
\* return of get_response_cache
InLookup == {"get", "hit_read", "hit_write", "cost_read", "tok_read",
             "cost_write", "tok_write", "miss_read", "miss_write"}

\* self.stats_cache.get(<counter>, 0): the counter read at each position
ReadOf == [hit_read  |-> "response_hits",
           cost_read |-> "estimated_cost_saved",
           tok_read  |-> "total_tokens_saved",
           miss_read |-> "response_misses"]

AfterRead == [hit_read  |-> "hit_write",
              cost_read |-> "tok_read",
              tok_read  |-> "cost_write",
              miss_read |-> "miss_write"]

\* self.stats_cache.set(<counter>, <value read> + <step>)
WriteOf == [hit_write  |-> "response_hits",
            cost_write |-> "estimated_cost_saved",
            tok_write  |-> "total_tokens_saved",
            miss_write |-> "response_misses"]

StepOf == [hit_write  |-> 1,
           cost_write |-> 1,
           tok_write  |-> DefaultTokens,
           miss_write |-> 1]

\* query_stream after get_response_cache: "if cached:" replays and returns,
\* otherwise the pipeline runs
AfterLookup(found) == IF found THEN "replay" ELSE "pipeline"

AfterWrite(t) ==
    [hit_write  |-> "cost_read",
     cost_write |-> "tok_write",
     tok_write  |-> AfterLookup(th_found[t]),
     miss_write |-> AfterLookup(th_found[t])]

\* the response a client writes: its own answer
ThreadResponse(t) ==
    [answer |-> Rep("y", t), confidence |-> [num |-> 7, den |-> 1],
     method |-> "streaming", sources |-> <<>>]

\* a client calls query_stream
ThStart(t) ==
    /\ th_pc[t] = "idle"
    /\ \E q \in Questions : th_q' = [th_q EXCEPT ![t] = q]
    /\ th_pc' = [th_pc EXCEPT ![t] = "get"]
    /\ UNCHANGED <<agent_vars, stream_side, fn_vars, th_found, th_val,
                   th_taint, th_ran, lookups_done, cl_pc, taint>>

\* cached = self.response_cache.get(question_hash), and the test of its age
ThGet(t) ==
    /\ th_pc[t] = "get"
    /\ LET got   == StoreGet(response_cache, QuestionHash(th_q[t]), now)
           found == got # <<>> /\ IsLive(got[1].timestamp, now)
       IN  /\ th_found' = [th_found EXCEPT ![t] = found]
           /\ th_pc' = [th_pc EXCEPT ![t] =
                           IF found THEN "hit_read" ELSE "miss_read"]
    /\ UNCHANGED <<agent_vars, stream_side, fn_vars, th_q, th_val, th_taint,
                   th_ran, lookups_done, cl_pc, taint>>

\* one self.stats_cache.get of get_response_cache
ThReadCounter(t) ==
    /\ th_pc[t] \in DOMAIN ReadOf
    /\ LET c == ReadOf[th_pc[t]]
       IN  /\ th_val' = [th_val EXCEPT ![t][c] = stats_cache[c]]
           /\ th_taint' = [th_taint EXCEPT ![t] =
                              IF taint[c] THEN @ \cup {c} ELSE @ \ {c}]
    /\ th_pc' = [th_pc EXCEPT ![t] = AfterRead[th_pc[t]]]
    /\ UNCHANGED <<agent_vars, stream_side, fn_vars, th_q, th_found, th_ran,
                   lookups_done, cl_pc, taint>>

\* one self.stats_cache.set of get_response_cache; the last one is followed
\* by the return
ThWriteCounter(t) ==
    /\ th_pc[t] \in DOMAIN WriteOf
    /\ LET c == WriteOf[th_pc[t]]
       IN  /\ stats_cache' = [stats_cache EXCEPT
                                ![c] = th_val[t][c] + StepOf[th_pc[t]]]
           /\ taint' = [taint EXCEPT ![c] = c \in th_taint[t]]
    /\ th_pc' = [th_pc EXCEPT ![t] = AfterWrite(t)[th_pc[t]]]
    /\ lookups_done' = IF th_pc[t] \in {"tok_write", "miss_write"}
                       THEN lookups_done + 1 ELSE lookups_done
    /\ UNCHANGED <<agent_vars, enable_cache, response_cache, qs_vars, now,
                   ticks, fn_vars, th_q, th_found, th_val, th_taint, th_ran,
                   cl_pc>>

\* the cached answer is replayed and the call returns
ThReplay(t) ==
    /\ th_pc[t] = "replay"
    /\ th_pc' = [th_pc EXCEPT ![t] = "done"]
    /\ UNCHANGED <<agent_vars, stream_side, fn_vars, th_q, th_found, th_val,
                   th_taint, th_ran, lookups_done, cl_pc, taint>>

\* the searches, the fusion, the selection and the generation
ThPipeline(t) ==
    /\ th_pc[t] = "pipeline"
    /\ th_ran' = [th_ran EXCEPT ![t] = @ + 1]
    /\ th_pc' = [th_pc EXCEPT ![t] = "write"]
    /\ UNCHANGED <<agent_vars, stream_side, fn_vars, th_q, th_found, th_val,
                   th_taint, lookups_done, cl_pc, taint>>

\* self.cache.set_response_cache(question, {...}), and the return
ThWrite(t) ==
    /\ th_pc[t] = "write"
    /\ response_cache' = SetResponseCache(th_q[t], ThreadResponse(t),
                                          response_cache, now)
    /\ th_pc' = [th_pc EXCEPT ![t] = "done"]
    /\ UNCHANGED <<agent_vars, enable_cache, stats_cache, qs_vars, now, ticks,
                   fn_vars, th_q, th_found, th_val, th_taint, th_ran,
                   lookups_done, cl_pc, taint>>

\* the order in which _init_stats sets the counters of the response cache
ResetOrder == <<"response_hits", "response_misses", "total_tokens_saved",
                "estimated_cost_saved">>

\* clear_cache(): self.response_cache.clear().  From here on every counter
\* value, in the store or already read by a client, is one of the time
\* before the clear.
ClearEntries ==
    /\ cl_pc = 0
    /\ response_cache' = [k \in {} |-> 0]
    /\ cl_pc' = 1
    /\ taint' = [c \in Counters |-> TRUE]
    /\ th_taint' = [t \in Threads |-> Counters]
    /\ UNCHANGED <<agent_vars, enable_cache, stats_cache, qs_vars, now, ticks,
                   fn_vars, th_pc, th_q, th_found, th_val, th_ran,
                   lookups_done>>

\* clear_cache(): one self.stats_cache.set(key, value) of _init_stats
ClearResetCounter ==
    /\ cl_pc \in 1..Len(ResetOrder)
    /\ stats_cache' = [stats_cache EXCEPT ![ResetOrder[cl_pc]] = 0]
    /\ taint' = [taint EXCEPT ![ResetOrder[cl_pc]] = FALSE]
    /\ cl_pc' = cl_pc + 1
    /\ UNCHANGED <<agent_vars, enable_cache, response_cache, qs_vars, now,
                   ticks, fn_vars, th_pc, th_q, th_found, th_val, th_taint,
                   th_ran, lookups_done>>

ConcInit ==
    /\ th_pc = [t \in Threads |-> "idle"]
    /\ th_q = [t \in Threads |-> <<>>]
    /\ th_found = [t \in Threads |-> FALSE]
    /\ th_val = [t \in Threads |-> [c \in Counters |-> 0]]
    /\ th_taint = [t \in Threads |-> {}]
    /\ th_ran = [t \in Threads |-> 0]
    /\ lookups_done = 0
    /\ cl_pc = 0
    /\ taint = [c \in Counters |-> FALSE]

ConcNext ==
    \/ \E t \in Threads : ThStart(t)
    \/ \E t \in Threads : ThGet(t)
    \/ \E t \in Threads : ThReadCounter(t)
    \/ \E t \in Threads : ThWriteCounter(t)
    \/ \E t \in Threads : ThReplay(t)
    \/ \E t \in Threads : ThPipeline(t)
    \/ \E t \in Threads : ThWrite(t)
    \/ ClearEntries
    \/ ClearResetCounter

(***************************************************************************)
(* Sequential use: one client, one query_stream call after the other, and  *)
(* a clear_cache call.                                                     *)
(***************************************************************************)
\* the cache_type arguments of clear_cache
CacheTypes == {"all", "responses", "embeddings"}

\* if cache_type in ['all', 'responses']: self.response_cache.clear()
ClearResponses(cache_type, store) ==
    IF cache_type \in {"all", "responses"} THEN [k \in {} |-> 0] ELSE store

\* a reset of the counters for every cache_type
ClearStatsAlways(cache_type, stats) == InitStats

\* if cache_type == 'all': self._init_stats()
ClearStats(cache_type, stats) ==
    IF cache_type = "all" THEN InitStats ELSE stats

\* CacheManager.clear_cache(cache_type), called once by the one client,
\* between two requests or while a request waits for its cache write
ClearCache(cache_type) ==
    /\ cl_pc = 0
    /\ qs_pc \in Returned \cup {"sources"}
    /\ response_cache' = ClearResponses(cache_type, response_cache)
    /\ stats_cache' = ClearStats(cache_type, stats_cache)
    /\ cl_pc' = Len(ResetOrder) + 1
    /\ UNCHANGED <<agent_vars, fn_vars, enable_cache, qs_vars, now, ticks,
                   th_pc, th_q, th_found, th_val, th_taint, th_ran,
                   lookups_done, taint>>

\* query_stream calls of one client, one after the other and each consumed
\* to its end, with a clear_cache call and the clock between them
SeqNext ==
    \/ QueryStart
    \/ QueryReplayChunk
    \/ QueryReplayMetadata
    \/ QueryReplaySources
    \/ QueryExpandStatus
    \/ QueryRetrieve
    \/ QueryRerank
    \/ QueryStreamChunk
    \/ QueryMetadata
    \/ QuerySources
    \/ QueryCacheWrite
    \/ \E cache_type \in CacheTypes : ClearCache(cache_type)
    \/ Tick

\* query_stream calls of one client within the TTL of the first, each
\* consumed to its end or to the failure of the generation backend, with
\* answers of up to MaxStreamed fragments
TripNext ==
    \/ QueryStart
    \/ QueryReplayChunk
    \/ QueryReplayMetadata
    \/ QueryReplaySources
    \/ QueryExpandStatus
    \/ QueryRetrieve
    \/ QueryRerank
    \/ QueryStreamLong
    \/ QueryGenerateRaises
    \/ QueryMetadata
    \/ QuerySources
    \/ QueryCacheWrite

(***************************************************************************)
(* AdvancedRetriever._combine_results.  Raw scores and the weight are in   *)
(* tenths; normalized and combined scores are exact fractions, so that no  *)
(* rounding of the division is assumed.                                    *)
(***************************************************************************)
\* raw scores of the two searches: 0.2, 0.8, 0.9
FuseScores == {2, 8, 9}

\* vector_weight: 0.0, 0.5, the default 0.7 of hybrid_search, and 1.0
Weights == {0, 5, 7, 10}

RECURSIVE GCD(_, _)
GCD(a, b) == IF b = 0 THEN a ELSE GCD(b, a % b)

\* the fraction n/d in lowest terms (d > 0, n >= 0)
Frac(n, d) == [num |-> n \div GCD(n, d), den |-> d \div GCD(n, d)]

FracAdd(a, b) == Frac(a.num * b.den + b.num * a.den, a.den * b.den)

FracEq(a, b) == a.num * b.den = b.num * a.den

FracGE(a, b) == a.num * b.den >= b.num * a.den

\* score * weight, the weight in tenths
Weighted(score, weight) == Frac(score.num * weight, score.den * 10)

\* a list a search returns: at most n entries, no document twice, best
\* score first
SearchLists(n) ==
    {l \in SeqsUpTo(Docs \X FuseScores, n) :
        /\ \A i, j \in 1..Len(l) : i # j => l[i][1] # l[j][1]
        /\ \A i \in 1..(Len(l) - 1) : l[i][2] >= l[i + 1][2]}

MaxScore(results) ==
    CHOOSE m \in {results[i][2] : i \in 1..Len(results)} :
        \A i \in 1..Len(results) : results[i][2] <= m

MinScore(results) ==
    CHOOSE m \in {results[i][2] : i \in 1..Len(results)} :
        \A i \in 1..Len(results) : results[i][2] >= m

\* no normalization: the raw score, as a fraction
NormalizeRaw(results) ==
    [i \in 1..Len(results) |-> <<results[i][1], Frac(results[i][2], 10)>>]

\* a scaling by the largest score alone: s / max_score
NormalizeByMax(results) ==
    [i \in 1..Len(results) |->
        <<results[i][1], Frac(results[i][2], MaxScore(results))>>]

\* normalize, the inner function of _combine_results: min-max scaling, with
\* a range of 1 (ten tenths) when all scores are equal
Normalize(results) ==
    IF results = <<>> THEN <<>>
    ELSE LET max_score   == MaxScore(results)
             min_score   == MinScore(results)
             score_range == IF max_score # min_score
                            THEN max_score - min_score ELSE 10
         IN  [i \in 1..Len(results) |->
                 <<results[i][1], Frac(results[i][2] - min_score, score_range)>>]

\* the positions of combined_dict (a dict, in insertion order) whose key is
\* the fingerprint of doc
Slots(combined, doc) ==
    {i \in 1..Len(combined) : combined[i].id = Fingerprint(doc)}

\* for doc, score in vector_norm: combined_dict[doc_id] = {...}
RECURSIVE PutVector(_, _, _)
PutVector(vector_norm, weight, combined) ==
    IF vector_norm = <<>> THEN combined
    ELSE LET doc   == Head(vector_norm)[1]
             entry == [id |-> Fingerprint(doc), doc |-> doc,
                       score |-> Weighted(Head(vector_norm)[2], weight)]
             at    == Slots(combined, doc)
         IN  PutVector(Tail(vector_norm), weight,
                       IF at = {} THEN Append(combined, entry)
                       ELSE [combined EXCEPT ![CHOOSE i \in at : TRUE] = entry])

\* for doc, score in keyword_norm: add to the entry, or make a new one
RECURSIVE AddKeyword(_, _, _)
AddKeyword(keyword_norm, weight, combined) ==
    IF keyword_norm = <<>> THEN combined
    ELSE LET doc  == Head(keyword_norm)[1]
             part == Weighted(Head(keyword_norm)[2], weight)
             at   == Slots(combined, doc)
         IN  AddKeyword(Tail(keyword_norm), weight,
                        IF at = {}
                        THEN Append(combined, [id |-> Fingerprint(doc),
                                               doc |-> doc, score |-> part])
                        ELSE LET i == CHOOSE i \in at : TRUE
                             IN  [combined EXCEPT
                                    ![i].score = FracAdd(@, part)])

\* an insertion that leaves the list in the order of arrival
InsertAtEnd(sorted, x) == Append(sorted, x)

\* an insertion that puts an entry ahead of the entries of equal score
InsertBeforeTies(sorted, x) ==
    LET n == Cardinality({i \in 1..Len(sorted) : ~FracGE(x[2], sorted[i][2])})
    IN  SubSeq(sorted, 1, n) \o <<x>> \o SubSeq(sorted, n + 1, Len(sorted))

\* result.sort(key=score, reverse=True), stable
InsertDescFrac(sorted, x) ==
    LET n == Cardinality({i \in 1..Len(sorted) : FracGE(sorted[i][2], x[2])})
    IN  SubSeq(sorted, 1, n) \o <<x>> \o SubSeq(sorted, n + 1, Len(sorted))

RECURSIVE SortDescFracFrom(_, _)
SortDescFracFrom(rest, sorted) ==
    IF rest = <<>> THEN sorted
    ELSE SortDescFracFrom(Tail(rest), InsertDescFrac(sorted, Head(rest)))

\* AdvancedRetriever._combine_results with filter_metadata=None, as
\* hybrid_search is called by query_stream
CombineResults(vector_results, keyword_results, vector_weight) ==
    LET vector_norm    == Normalize(vector_results)
        keyword_norm   == Normalize(keyword_results)
        keyword_weight == 10 - vector_weight
        combined_dict  == AddKeyword(keyword_norm, keyword_weight,
                                     PutVector(vector_norm, vector_weight, <<>>))
    IN  SortDescFracFrom([i \in 1..Len(combined_dict) |->
                             <<combined_dict[i].doc, combined_dict[i].score>>],
                         <<>>)

\* the call
Fuse ==
    /\ fz_pc = "ready"
    /\ fz_out' = CombineResults(fz_vector, fz_keyword, fz_weight)
    /\ fz_pc' = "done"
    /\ UNCHANGED <<agent_vars, stream_side, conc_vars, fz_vector, fz_keyword,
                   fz_weight, calc_vars, expand_vars, rerank_vars, pipe_vars>>

FuseInit ==
    /\ fz_pc = "ready"
    /\ fz_vector \in SearchLists(MaxVectorLen)
    /\ fz_keyword \in SearchLists(MaxKeywordLen)
    /\ fz_weight \in Weights
    /\ fz_out = <<>>

FuseNext == Fuse

(***************************************************************************)
(* CalculatorTool.execute.  An expression is a sequence of characters.     *)
(***************************************************************************)
\* a lone surrogate, as json.loads returns for the escape \ud800: a str
\* character that no utf-8 stream can encode
Surrogate == "U+D800"

\* the characters of the expressions: two digits, an operator, the blank,
\* a letter and the surrogate
ExprChars == {"1", "0", "/", " ", "a", Surrogate}

\* set('0123456789+-*/()., ')
Allowed == {"0", "1", "2", "3", "4", "5", "6", "7", "8", "9",
            "+", "-", "*", "/", "(", ")", ".", ",", " "}

Digits == {"0", "1"}

\* all(c in allowed for c in expression)
AllAllowed(expression) ==
    \A i \in 1..Len(expression) : expression[i] \in Allowed

\* can sys.stdout (utf-8) encode the text
Encodable(text) == \A i \in 1..Len(text) : text[i] # Surrogate

\* the tokens of the Python tokenizer for a text of digits, "/" and blanks:
\* a run of digits is one number, "//" is one operator, blanks separate;
\* glue tells whether the last token ends where the rest begins
RECURSIVE Tokenize(_, _, _)
Tokenize(rest, tokens, glue) ==
    IF rest = <<>> THEN tokens
    ELSE LET c    == Head(rest)
             last == IF tokens = <<>> THEN <<>> ELSE tokens[Len(tokens)]
         IN  IF c = " " THEN Tokenize(Tail(rest), tokens, FALSE)
             ELSE IF glue /\ last # <<>>
                       /\ \/ c \in Digits /\ last[1] \in Digits
                          \/ c = "/" /\ last = <<"/">>
             THEN Tokenize(Tail(rest),
                           [tokens EXCEPT ![Len(tokens)] = Append(last, c)],
                           TRUE)
             ELSE Tokenize(Tail(rest), Append(tokens, <<c>>), TRUE)

IsNumber(token) == token[1] \in Digits

IsZero(token) == \A i \in 1..Len(token) : token[i] = "0"

\* a decimal literal: no leading zero, unless it is all zeros
IsLiteral(token) == IsNumber(token) /\ (token[1] = "0" => IsZero(token))

\* number (operator number)*
IsExpression(tokens) ==
    /\ Len(tokens) % 2 = 1
    /\ \A i \in 1..Len(tokens) :
           IF i % 2 = 1 THEN IsLiteral(tokens[i]) ELSE ~IsNumber(tokens[i])

\* eval(expression) for an expression of allowed characters: a value, or
\* the exception raised
Eval(expression) ==
    LET tokens == Tokenize(expression, <<>>, FALSE)
    IN  IF ~IsExpression(tokens) THEN "SyntaxError"
        ELSE IF \E i \in 2..Len(tokens) : i % 2 = 1 /\ IsZero(tokens[i])
        THEN "ZeroDivisionError"
        ELSE "value"

\* how a CalculatorTool.execute call ends
ToolReturn(success, error, evaluated) ==
    [kind |-> "returned", success |-> success, error |-> error,
     evaluated |-> evaluated]

\* CalculatorTool.execute: the print, the allow-list test, eval, and the
\* handler around the last two
CalculatorExecute(expression) ==
    IF ~Encodable(expression)
    THEN \* print raises, ahead of the try
         [kind |-> "raised", success |-> FALSE, error |-> "UnicodeEncodeError",
          evaluated |-> FALSE]
    ELSE IF ~AllAllowed(expression)
    THEN ToolReturn(FALSE, "ValueError", FALSE)
    ELSE IF Eval(expression) = "value"
    THEN ToolReturn(TRUE, "none", TRUE)
    ELSE ToolReturn(FALSE, Eval(expression), TRUE)

\* the call
Calculate ==
    /\ cx_pc = "ready"
    /\ cx_out' = CalculatorExecute(cx_expression)
    /\ cx_pc' = "done"
    /\ UNCHANGED <<agent_vars, stream_side, conc_vars, fuse_vars, cx_expression,
                   expand_vars, rerank_vars, pipe_vars>>

CalcInit ==
    /\ cx_pc = "ready"
    /\ cx_expression \in SeqsUpTo(ExprChars, MaxExprLen)
    /\ cx_out = <<>>

CalcNext == Calculate

(***************************************************************************)
(* AdvancedRetriever.query_expansion.  A text is a sequence of tokens: the *)
(* five prefixes, the blank, "W" for a word of 11 letters and "w" for a    *)
(* word of 2 letters.                                                      *)
(***************************************************************************)
\* ['Variação 1:', 'Variação 2:', '1.', '2.', '-'], in the order tested
Prefixes == <<"Variação 1:", "Variação 2:", "1.", "2.", "-">>

\* len() of a token
TokenLen(token) ==
    IF token \in {"Variação 1:", "Variação 2:", "W"} THEN 11
    ELSE IF token = "T" THEN 10
    ELSE IF token \in {"1.", "2.", "w"} THEN 2
    ELSE 1

RECURSIVE TextLen(_)
TextLen(text) == IF text = <<>> THEN 0 ELSE TokenLen(Head(text)) + TextLen(Tail(text))

\* the lines the responses are made of
Lines == {<<>>,
          <<"w">>,
          <<"W">>,
          <<"T">>,
          <<"-", " ", "W">>,
          <<"1.", " ", "W", "w">>,
          <<"Variação 2:", "W", "W">>,
          <<" ", "W", "w", " ">>,
          <<"-", "1.", "W", "W">>,
          <<"2.", "-", "w", "W">>}

\* the queries
ExpandQueries == {<<"W">>, <<"w">>}

\* for prefix in [...]: if clean.startswith(prefix): clean = clean[len(prefix):].strip()
RECURSIVE StripPrefixes(_, _)
StripPrefixes(clean, i) ==
    IF i > Len(Prefixes) THEN clean
    ELSE IF clean # <<>> /\ Head(clean) = Prefixes[i]
    THEN StripPrefixes(Strip(Tail(clean)), i + 1)
    ELSE StripPrefixes(clean, i + 1)

\* clean, at the end of the loop body's first part
CleanLine(line) == StripPrefixes(Strip(line), 1)

\* a test that takes every text for new
NotInAlways(clean, variations) == TRUE

\* clean not in variations
NotIn(clean, variations) ==
    \A i \in 1..Len(variations) : variations[i] # clean

\* a length test that lets a text of 10 characters through
LongEnoughFromTen(clean) == TextLen(clean) >= MinVariationLen

\* len(clean) > 10
LongEnough(clean) == TextLen(clean) > MinVariationLen

\* for line in lines: ... variations.append(clean)
RECURSIVE Collect(_, _)
Collect(lines, variations) ==
    IF lines = <<>> THEN variations
    ELSE LET clean == CleanLine(Head(lines))
         IN  Collect(Tail(lines),
                     IF clean # <<>> /\ LongEnough(clean)
                                     /\ NotIn(clean, variations)
                     THEN Append(variations, clean)
                     ELSE variations)

\* AdvancedRetriever.query_expansion: [query] when llm.generate raises,
\* else the first three of the query and the variations found
QueryExpansion(query, llm) ==
    IF llm.raises THEN <<query>>
    ELSE Take(Collect(llm.lines, <<query>>), MaxQueries)

\* the call
Expand ==
    /\ qe_pc = "ready"
    /\ qe_out' = QueryExpansion(qe_query, qe_llm)
    /\ qe_pc' = "done"
    /\ UNCHANGED <<agent_vars, stream_side, conc_vars, fuse_vars, calc_vars,
                   qe_query, qe_llm, rerank_vars, pipe_vars>>

ExpandInit ==
    /\ qe_pc = "ready"
    /\ qe_query \in ExpandQueries
    /\ qe_llm \in {[raises |-> TRUE, lines |-> <<>>]} \cup
                  {[raises |-> FALSE, lines |-> l] : l \in SeqsUpTo(Lines, MaxLines)}
    /\ qe_out = <<>>

ExpandNext == Expand

(***************************************************************************)
(* AdvancedRetriever.rerank_results, one call.                             *)
(***************************************************************************)
\* what the cross-encoder does: the import fails (reranker_available is
\* False), the model raises, or it scores the pairs
RerankModels == {"unavailable", "raises", "scores"}

\* the lists rerank_results may return
RerankOutcomes(documents, top_k, model) ==
    IF model = "scores"
    THEN {Take(SortDesc([i \in 1..Len(documents) |-> <<documents[i], f[i]>>]),
               top_k) : f \in [1..Len(documents) -> Scores]}
    ELSE {RerankFallback(documents, top_k)}

\* the call
Rerank ==
    /\ rr_pc = "ready"
    /\ rr_out' \in RerankOutcomes(rr_documents, rr_top_k, rr_model)
    /\ rr_pc' = "done"
    /\ UNCHANGED <<agent_vars, stream_side, conc_vars, fuse_vars, calc_vars,
                   expand_vars, rr_documents, rr_top_k, rr_model, pipe_vars>>

\* a long list of documents: d1, d2, d3, d1, ...
LongList ==
    [i \in 1..ManyDocuments |->
        CASE i % 3 = 1 -> "d1" [] i % 3 = 2 -> "d2" [] OTHER -> "d3"]

RerankInit ==
    /\ rr_pc = "ready"
    /\ rr_documents \in SeqsUpTo(Docs, MaxDocuments) \cup {LongList}
    /\ rr_top_k \in (0..MaxTopK) \cup {ManyDocuments}
    /\ rr_model \in RerankModels
    /\ rr_out = <<>>

RerankNext == Rerank

(***************************************************************************)
(* The retrieval steps of StreamingRAGSystem.query_stream on a cache miss: *)
(* the searches of the query variants, the fusion across variants, the     *)
(* reranking and the selection.  Scores are exact fractions.               *)
(***************************************************************************)
\* the chunks of the store: "d1" and "d2" share a fingerprint
Corpus == Docs \cup {"d4"}

\* raw scores of the searches: 0.2 and 0.9
PipeScores == {2, 9}

\* the lists a search may return: at most n entries, no chunk twice, best
\* score first
PipeLists(n) ==
    {l \in SeqsUpTo(Corpus \X PipeScores, n) :
        /\ \A i, j \in 1..Len(l) : i # j => l[i][1] # l[j][1]
        /\ \A i \in 1..(Len(l) - 1) : l[i][2] >= l[i + 1][2]}

VectorHits == PipeLists(MaxVectorHits)

KeywordHits == PipeLists(MaxKeywordHits)

\* a list with its scores (in tenths) as fractions
Fractions(list) ==
    [i \in 1..Len(list) |-> <<list[i][1], Frac(list[i][2], 10)>>]

\* an inner search that asks for k entries only
InnerKSame(k) == k

\* k * 2: what hybrid_search asks of the vector and the keyword search
InnerK(k) == k * 2

\* AdvancedRetriever.hybrid_search, given what its two searches return
HybridSearch(vector_results, keyword_results, k) ==
    Take(CombineResults(vector_results, keyword_results, DefaultWeight), k)

\* a test that never replaces an entry
BetterNever(score, kept) == FALSE

\* score > seen[doc_id][1]
Better(score, kept) == ~FracGE(kept, score)

\* the "seen" dict of query_stream, in insertion order
RECURSIVE SeenFrom(_, _)
SeenFrom(results, seen) ==
    IF results = <<>> THEN seen
    ELSE LET r   == Head(results)
             idx == {i \in 1..Len(seen) :
                        Fingerprint(seen[i][1]) = Fingerprint(r[1])}
         IN  IF idx = {}
             THEN SeenFrom(Tail(results), Append(seen, r))
             ELSE LET i == CHOOSE i \in idx : TRUE
                  IN  IF Better(r[2], seen[i][2])
                      THEN SeenFrom(Tail(results), [seen EXCEPT ![i] = r])
                      ELSE SeenFrom(Tail(results), seen)

\* all_results, after the extend of every variant
RECURSIVE Flatten(_)
Flatten(lists) ==
    IF lists = <<>> THEN <<>> ELSE Head(lists) \o Flatten(Tail(lists))

\* top_results = unique_results[:k_documents * 2], unique_results sorted
Shortlist(all_results, k) ==
    Take(SortDescFracFrom(SeenFrom(all_results, <<>>), <<>>), 2 * k)

\* a test that asks for the reranker whenever use_rerank is set
ShouldRerankAlways(use_rerank, top, k) == use_rerank

\* use_rerank and len(top_results) > self.k_documents
ShouldRerank(use_rerank, top, k) == use_rerank /\ Len(top) > k

\* one turn of "for q in queries": the search of one variant, extended
\* into all_results
PipeSearch ==
    /\ rt_pc = "search"
    /\ LET k == 3 * rt_args.k
       IN  IF rt_args.use_hybrid
           THEN \E v \in {l \in VectorHits : Len(l) <= InnerK(k)} :
                \E kw \in {l \in KeywordHits : Len(l) <= InnerK(k)} :
                  /\ rt_results' = Append(rt_results, HybridSearch(v, kw, k))
                  /\ rt_log' = rt_log \o
                                 << [search |-> "vector", k |-> InnerK(k)],
                                    [search |-> "keyword", k |-> InnerK(k)] >>
           ELSE \E v \in {l \in VectorHits : Len(l) <= k} :
                  /\ rt_results' = Append(rt_results, Fractions(v))
                  /\ rt_log' = Append(rt_log, [search |-> "vector", k |-> k])
    /\ rt_left' = rt_left - 1
    /\ rt_pc' = IF rt_left = 1 THEN "fuse" ELSE "search"
    /\ UNCHANGED <<agent_vars, stream_side, conc_vars, fuse_vars, calc_vars,
                   expand_vars, rerank_vars, rt_args, rt_top, rt_final,
                   rt_rerank>>

\* the "seen" loop, the sort and the cut
PipeFuse ==
    /\ rt_pc = "fuse"
    /\ rt_top' = Shortlist(Flatten(rt_results), rt_args.k)
    /\ rt_pc' = "select"
    /\ UNCHANGED <<agent_vars, stream_side, conc_vars, fuse_vars, calc_vars,
                   expand_vars, rerank_vars, rt_args, rt_left, rt_results,
                   rt_log, rt_final, rt_rerank>>

\* the reranker, or the first k_documents of the shortlist
PipeSelect ==
    /\ rt_pc = "select"
    /\ IF ShouldRerank(rt_args.use_rerank, rt_top, rt_args.k)
       THEN \E model \in RerankModels :
            \E reranked \in RerankOutcomes(DocsOf(rt_top), rt_args.k, model) :
              /\ rt_final' = Fractions(reranked)
              /\ rt_rerank' = model
       ELSE /\ rt_final' = Take(rt_top, rt_args.k)
            /\ rt_rerank' = "none"
    /\ rt_pc' = "done"
    /\ UNCHANGED <<agent_vars, stream_side, conc_vars, fuse_vars, calc_vars,
                   expand_vars, rerank_vars, rt_args, rt_left, rt_results,
                   rt_log, rt_top>>

PipeInit ==
    /\ rt_pc = "search"
    /\ rt_args \in [use_hybrid : BOOLEAN, use_rerank : BOOLEAN, k : 1..MaxK]
    /\ rt_left \in 1..MaxVariants
    /\ rt_results = <<>>
    /\ rt_log = <<>>
    /\ rt_top = <<>>
    /\ rt_final = <<>>
    /\ rt_rerank = "none"

PipeNext ==
    \/ PipeSearch
    \/ PipeFuse
    \/ PipeSelect

\* before _combine_results is called
FuseIdle ==
    /\ fz_pc = "ready"
    /\ fz_vector = <<>>
    /\ fz_keyword = <<>>
    /\ fz_weight = 5
    /\ fz_out = <<>>

\* before CalculatorTool.execute is called
CalcIdle ==
    /\ cx_pc = "ready"
    /\ cx_expression = <<>>
    /\ cx_out = <<>>

\* before query_expansion is called
ExpandIdle ==
    /\ qe_pc = "ready"
    /\ qe_query = <<>>
    /\ qe_llm = <<>>
    /\ qe_out = <<>>

\* before rerank_results is called
RerankIdle ==
    /\ rr_pc = "ready"
    /\ rr_documents = <<>>
    /\ rr_top_k = 0
    /\ rr_model = "unavailable"
    /\ rr_out = <<>>

\* before the retrieval steps
PipeIdle ==
    /\ rt_pc = "search"
    /\ rt_args = [use_hybrid |-> TRUE, use_rerank |-> TRUE, k |-> 1]
    /\ rt_left = 0
    /\ rt_results = <<>>
    /\ rt_log = <<>>
    /\ rt_top = <<>>
    /\ rt_final = <<>>
    /\ rt_rerank = "none"

\* the rest of the system, not running
RestIdle == AgentInit({<<"A">>}) /\ StreamInit({TRUE}) /\ ConcInit

FnIdle == FuseIdle /\ CalcIdle /\ ExpandIdle /\ RerankIdle /\ PipeIdle

FuseSpecInit ==
    RestIdle /\ FuseInit /\ CalcIdle /\ ExpandIdle /\ RerankIdle /\ PipeIdle

\* one _combine_results call, on any two result lists
FuseSpec == FuseSpecInit /\ [][FuseNext]_vars

CalcSpecInit ==
    RestIdle /\ FuseIdle /\ CalcInit /\ ExpandIdle /\ RerankIdle /\ PipeIdle

\* one CalculatorTool.execute call, on any expression
CalcSpec == CalcSpecInit /\ [][CalcNext]_vars

ExpandSpecInit ==
    RestIdle /\ FuseIdle /\ CalcIdle /\ ExpandInit /\ RerankIdle /\ PipeIdle

\* one query_expansion call, on any query and any answer of the backend
ExpandSpec == ExpandSpecInit /\ [][ExpandNext]_vars

RerankSpecInit ==
    RestIdle /\ FuseIdle /\ CalcIdle /\ ExpandIdle /\ RerankInit /\ PipeIdle

\* one rerank_results call, on any documents, top_k and model behaviour
RerankSpec == RerankSpecInit /\ [][RerankNext]_vars

PipeSpecInit ==
    RestIdle /\ FuseIdle /\ CalcIdle /\ ExpandIdle /\ RerankIdle /\ PipeInit

\* the retrieval steps of one query_stream call
PipeSpec == PipeSpecInit /\ [][PipeNext]_vars

SeqSpecInit ==
    AgentInit({<<"A">>}) /\ StreamInit({TRUE}) /\ ConcInit /\ FnIdle

\* query_stream in sequential use
SeqSpec == SeqSpecInit /\ [][SeqNext]_vars

TripSpecInit ==
    AgentInit({<<"A">>}) /\ StreamInit({TRUE}) /\ ConcInit /\ FnIdle

\* the round trip of an answer through the cache
TripSpec == TripSpecInit /\ [][TripNext]_vars

StreamSpecInit ==
    AgentInit({<<"A">>}) /\ StreamInit(BOOLEAN) /\ ConcInit /\ FnIdle

ConcSpecInit ==
    AgentInit({<<"A">>}) /\ StreamInit({TRUE}) /\ ConcInit /\ FnIdle

\* query_stream calls side by side, and a clear_cache call
ConcSpec == ConcSpecInit /\ [][ConcNext]_vars

StreamSpec == StreamSpecInit /\ [][StreamNext]_vars

Init ==
    AgentInit(AgentQuestions) /\ StreamInit({TRUE}) /\ ConcInit /\ FnIdle

Next == AgentNext

\* one process_stream call
Spec == Init /\ [][Next]_vars

\* one process_stream call whose consumer keeps asking for the next event
LiveSpec == Spec /\ WF_vars(Next)

(***************************************************************************)
(* Properties of AutonomousAgent.process_stream, checked under Spec.       *)
(***************************************************************************)
AfterLoop == pc \in {"synth", "stream", "done"}

Prompted == pc \in {"stream", "done"}

SuccessfulOnly(results) == SelectSeq(results, LAMBDA r : r.success)

\* C1: one call of process_stream makes at most max_iterations (3)
\* tool.execute calls and accumulates at most 3 tool results, whatever the
\* planner answers and whatever the tools return.
C1_AtMostMaxIterationsTools ==
    /\ exec_calls <= max_iterations
    /\ Len(tool_results) <= max_iterations

C1_Witness ==
    pc = "done" /\ exec_calls = max_iterations /\ Len(tool_results) = max_iterations

\* C2, as claimed: when the decision names a tool that is not in the
\* registry, the step that follows the lookup leaves the loop for the
\* synthesis step; it does not go back to planning.
C2_UnknownToolAbortsLoop ==
    [][(pc = "tool" /\ plan.tool \notin RegisteredTools) => pc' = "synth"]_vars

\* C3, as claimed: when the decision names a tool that is not in the
\* registry, that step appends a failed result to tool_results.
C3_UnknownToolRecordsFailure ==
    [][(pc = "tool" /\ plan.tool \notin RegisteredTools)
         => /\ Len(tool_results') = Len(tool_results) + 1
            /\ ~tool_results'[Len(tool_results')].success]_vars

\* C4: once a tool has returned a failed result the loop is over: the
\* failed result is the last one (no retry, no later tool), no planning
\* request follows the one of its iteration, and the synthesis prompt is
\* built from all accumulated results, the failed one included.
C4_FailedToolAbortsLoop ==
    (\E i \in 1..Len(tool_results) : ~tool_results[i].success)
      => /\ \A i \in 1..Len(tool_results) :
              ~tool_results[i].success => i = Len(tool_results)
         /\ AfterLoop
         /\ plan_calls = iteration + 1
         /\ exec_calls = Len(tool_results)
         /\ Prompted =>
              final_prompt = CreateFinalAnswerPrompt(question, tool_results)

C4_Witness ==
    /\ pc = "done"
    /\ Len(tool_results) = 2
    /\ tool_results[1].success
    /\ ~tool_results[2].success
    /\ final_prompt.kind = "results"

\* C5: if json.loads does not accept the first planning response, the
\* decision is is_complete = true, the loop ends after that one planning
\* request with no tool call and no tool result, and the synthesis prompt
\* is the raw question.
C5_MalformedFirstResponseEndsLoop ==
    (Len(parse_log) >= 1 /\ ~parse_log[1])
      => /\ AfterLoop
         /\ pc = "synth" => IsComplete(plan)
         /\ plan_calls = 1
         /\ exec_calls = 0
         /\ tool_results = <<>>
         /\ Prompted => final_prompt = RawPrompt(question)

C5_Witness ==
    /\ pc = "done"
    /\ parse_log = <<FALSE>>
    /\ final_prompt = RawPrompt(question)
    /\ exec_calls = 0

\* C6, as claimed: a planning step that obtained a decision goes to the
\* tool step iff needs_tool is true, is_complete is not true and the tool
\* name is present and not null; no planning step calls tool.execute.
C6_ToolStepIffNonNullTool ==
    [][(pc = "plan" /\ plan' # NoPlan)
         => /\ (pc' = "tool") <=>
                 (/\ plan'.needs_tool = "true"
                  /\ plan'.is_complete # "true"
                  /\ plan'.tool \notin {"absent", "null"})
            /\ exec_calls' = exec_calls]_vars

\* C6, amended: a planning step that obtained a decision goes to the tool
\* step iff needs_tool is true, is_complete is not true and the tool name
\* is present, not null and not the empty string; no planning step calls
\* tool.execute, and tool.execute is called only from the tool step.
C6_ToolStepIffTruthyTool ==
    [][/\ (pc = "plan" /\ plan' # NoPlan)
          => /\ (pc' = "tool") <=>
                  (/\ plan'.needs_tool = "true"
                   /\ plan'.is_complete # "true"
                   /\ plan'.tool \notin {"absent", "null", ""})
             /\ exec_calls' = exec_calls
       /\ exec_calls' # exec_calls => pc = "tool"]_vars

C6_Witness ==
    /\ pc = "tool"
    /\ iteration = 1
    /\ plan.needs_tool = "true"
    /\ plan.is_complete = "absent"
    /\ plan.tool = "calculator"

\* C7: the synthesis prompt built from the accumulated results is the
\* prompt built from the successful ones alone, and no line of it comes
\* from the error of a failed result.
C7_PromptFromSuccessfulResultsOnly ==
    (Prompted /\ tool_results # <<>>)
      => /\ final_prompt =
              CreateFinalAnswerPrompt(question, SuccessfulOnly(tool_results))
         /\ \A i \in 1..Len(tool_results) :
              ~tool_results[i].success =>
                \A k \in 1..Len(final_prompt.results_text) :
                    final_prompt.results_text[k].of # tool_results[i].error

C7_Witness ==
    /\ pc = "done"
    /\ Len(tool_results) = 3
    /\ ~tool_results[3].success
    /\ tool_results[3].tool = "calculator"
    /\ Len(final_prompt.results_text) >= 2


(***************************************************************************)
(* Properties of StreamingRAGSystem.query_stream, checked under            *)
(* StreamSpec.                                                             *)
(***************************************************************************)
\* the request at hand was answered from the cache
CacheHit == cached # <<>>

\* the text the chunk events carry, in order
RECURSIVE ChunkText(_)
ChunkText(evs) ==
    IF evs = <<>> THEN <<>>
    ELSE IF Head(evs).type = "chunk"
         THEN Head(evs).data \o ChunkText(Tail(evs))
         ELSE ChunkText(Tail(evs))

\* the event at position i is a metadata event with the given method
IsMetadata(evs, i, method) ==
    /\ evs[i].type = "metadata"
    /\ evs[i].data.method = method

\* the request at hand ended in the zero-result branch
ZeroResults == qs_pc = "done" /\ ~CacheHit /\ final_docs = <<>>

\* the events of the zero-result branch: the "no documents" chunk is the
\* last event and the only chunk, there is no metadata and no sources event
ZeroResultEvents ==
    /\ events[Len(events)].type = "chunk"
    /\ events[Len(events)].data = NoDocsMessage
    /\ CountType(events, "chunk") = 1
    /\ CountType(events, "metadata") = 0
    /\ CountType(events, "sources") = 0

\* C8: a request that hits the cache runs no search, rerank, generation or
\* cache write step, and when it has returned its events are: one status
\* event, then the cached answer in chunk events of 10 characters each
\* (only the last may be shorter), then one metadata event with method
\* "cached", then one sources event.
C8_CacheHitReplaysAnswer ==
    CacheHit =>
        /\ calls = NoCalls
        /\ qs_pc \in {"replay", "replay_sources", "done", "cancelled"}
        /\ qs_pc = "done" =>
             LET n == Len(events)
             IN  /\ n >= 3
                 /\ events[1].type = "status"
                 /\ \A i \in 2..(n - 2) :
                        /\ events[i].type = "chunk"
                        /\ Len(events[i].data) \in 1..SliceSize
                        /\ i < n - 2 => Len(events[i].data) = SliceSize
                 /\ IsMetadata(events, n - 1, "cached")
                 /\ events[n].type = "sources"
                 /\ ChunkText(events) = cached[1].answer

C8_Witness ==
    /\ qs_pc = "done"
    /\ CacheHit
    /\ Len(cached[1].answer) > SliceSize
    /\ CountType(events, "chunk") = 2

\* C9: with the cache enabled, a request for a question that an earlier
\* request completed (with at least one selected document) less than the
\* TTL ago is answered from the cache: it calls neither generate nor
\* generate_stream, and its events hold a metadata event whose method is
\* "cached".  (The cache read itself is taken to return; C17 is about the
\* read that raises.)
C9_RepeatWithinTTLIsCached ==
    (enable_cache /\ qs_repeat /\ qs_pc # "raised_read") =>
        /\ CacheHit
        /\ calls.generate = 0
        /\ calls.generate_stream = 0
        /\ qs_pc = "done" =>
             \E i \in 1..Len(events) : IsMetadata(events, i, "cached")

C9_Witness ==
    /\ enable_cache
    /\ qs_repeat
    /\ qs_pc = "done"
    /\ now - completed_at[qs_args.question] = TTL - 1

\* C10, as claimed: a request that misses the cache and selects no document
\* ends with the "no documents" chunk as its only chunk and last event, has
\* no metadata and no sources event, has made no call to the generation
\* backend (neither generate nor generate_stream) and has not written to
\* the cache.
C10_ZeroResultsNoBackendCall ==
    ZeroResults =>
        /\ ZeroResultEvents
        /\ calls.generate = 0
        /\ calls.generate_stream = 0
        /\ calls.cache_write = 0

\* C10, amended: a request that misses the cache and selects no document
\* ends with the "no documents" chunk as its only chunk and last event, has
\* no metadata and no sources event, has not called generate_stream, has
\* called generate once if use_expansion is set (the query expansion) and
\* not at all otherwise, and has not written to the cache.
C10_ZeroResultsSkipSynthesis ==
    ZeroResults =>
        /\ ZeroResultEvents
        /\ calls.generate = (IF qs_args.use_expansion THEN 1 ELSE 0)
        /\ calls.generate_stream = 0
        /\ calls.cache_write = 0

C10_Witness ==
    /\ ZeroResults
    /\ qs_args.use_expansion
    /\ calls.search = MaxQueries


\* C11: a request whose consumer stops consuming before the event stream is
\* exhausted makes no set_response_cache call and leaves the store as it
\* is; the store changes only in the step after the sources event of a
\* request consumed to its end, and the answer stored then is the whole
\* text the chunk events carried, never a part of it.
C11_CancelledRequestWritesNothing ==
    [][/\ qs_pc' = "cancelled" =>
            /\ response_cache' = response_cache
            /\ calls'.cache_write = 0
       /\ response_cache' # response_cache =>
            /\ qs_pc = "sources"
            /\ qs_pc' = "done"
            /\ response_cache'[QuestionHash(qs_args.question)].value.response.answer
                 = ChunkText(events)]_vars

C11_Witness ==
    /\ qs_pc = "cancelled"
    /\ enable_cache
    /\ qs_full_answer # <<>>
    /\ CountType(events, "metadata") = 0


\* the key the request at hand addresses
RequestKey == QuestionHash(qs_args.question)

\* C12: a lookup (the cache check of a request) for a question whose entry
\* was written at time T returns the entry and counts a hit, and no miss,
\* when it is made before T + 24h; made after T + 24h it returns nothing
\* and counts a miss, and no hit, although the entry is still in the store.
\* (The lookup is one that returns; C17 is about the lookup that raises.)
C12_EntryLiveForTTL ==
    [][(requests' # requests /\ enable_cache /\ qs_pc' # "raised_read"
            /\ QuestionHash(qs_args'.question) \in DOMAIN response_cache) =>
        LET entry == response_cache[QuestionHash(qs_args'.question)].value
        IN  /\ now < entry.timestamp + TTL =>
                 /\ cached' = <<entry.response>>
                 /\ stats_cache'.response_hits = stats_cache.response_hits + 1
                 /\ stats_cache'.response_misses = stats_cache.response_misses
            /\ now > entry.timestamp + TTL =>
                 /\ cached' = <<>>
                 /\ stats_cache'.response_misses = stats_cache.response_misses + 1
                 /\ stats_cache'.response_hits = stats_cache.response_hits]_vars

C12_Witness ==
    /\ qs_pc = "buscando"
    /\ enable_cache
    /\ RequestKey \in DOMAIN response_cache
    /\ now > response_cache[RequestKey].value.timestamp + TTL
    /\ stats_cache.response_misses = 2


\* two characters that are the same letter, whatever their case
SameLetter(c1, c2) == c1 = c2 \/ {c1, c2} = {"A", "a"}

\* the text q without its leading and trailing blanks, as the set of the
\* one such text
Trims(q) ==
    {SubSeq(q, i, j) : <<i, j>> \in
        {ij \in (1..(Len(q) + 1)) \X (0..Len(q)) :
            /\ ij[1] <= ij[2] + 1
            /\ \A k \in 1..(ij[1] - 1) : q[k] = " "
            /\ \A k \in (ij[2] + 1)..Len(q) : q[k] = " "
            /\ ij[1] <= ij[2] => (q[ij[1]] # " " /\ q[ij[2]] # " ")}}

\* q1 and q2 differ only in letter case or in leading/trailing blanks
SameUpToCaseAndTrim(q1, q2) ==
    \E c1 \in Trims(q1), c2 \in Trims(q2) :
        /\ Len(c1) = Len(c2)
        /\ \A k \in 1..Len(c1) : SameLetter(c1[k], c2[k])

\* q holds a capital letter or a leading or trailing blank
IsRawText(q) ==
    \/ \E k \in 1..Len(q) : q[k] = "A"
    \/ q # <<>> /\ (q[1] = " " \/ q[Len(q)] = " ")

\* the pairs of questions that differ only so
EquivalentQuestions ==
    {p \in Questions \X Questions : SameUpToCaseAndTrim(p[1], p[2])}

\* the questions whose text is raw
RawQuestions == {q \in Questions : IsRawText(q)}

\* questions that differ only so have one key
OneKeyPerQuestion ==
    \A p \in EquivalentQuestions : QuestionHash(p[1]) = QuestionHash(p[2])

\* C13: no entry is ever stored under the key of a raw (capitalised or
\* untrimmed) question text; questions that differ only in letter case or
\* in leading/trailing blanks have one key, so that the writes of such
\* questions go to one entry and a lookup started less than the TTL after
\* the completed request of such a question does not miss.
C13_KeyFromNormalizedQuestion ==
    /\ \A q \in RawQuestions : HashContent(q) \notin DOMAIN response_cache
    /\ OneKeyPerQuestion
    /\ \A k1, k2 \in DOMAIN response_cache :
           k1 # k2 => ~SameUpToCaseAndTrim(k1[2], k2[2])
    /\ (enable_cache /\ qs_pc = "buscando") =>
           ~ \E q \in DOMAIN completed_at :
                 /\ <<q, qs_args.question>> \in EquivalentQuestions
                 /\ now - completed_at[q] < TTL

C13_Witness ==
    /\ qs_pc = "done"
    /\ CacheHit
    /\ qs_args.question = <<"a", " ">>
    /\ DOMAIN completed_at = {<<"A">>}


\* C17, as claimed: a failure of the cache read or of the cache write of a
\* request is swallowed: no exception of the cache reaches the caller of
\* query_stream.
C17_CacheFailureSwallowed == qs_pc \notin {"raised_read", "raised_write"}

\* C18, as claimed: a vector search that raises is degraded to an empty
\* result list: no exception of the search reaches the caller of
\* query_stream.
C18_SearchFailureDegraded == qs_pc # "raised_search"


(***************************************************************************)
(* Properties of the CacheManager under concurrent clients, checked under  *)
(* ConcSpec.                                                               *)
(***************************************************************************)
\* no get_response_cache call is under way
NoLookupUnderWay == \A t \in Threads : th_pc[t] \notin InLookup

\* C14, as claimed: no counter increment is lost: with no clear_cache call
\* made and no lookup under way, response_hits + response_misses equals the
\* number of get_response_cache calls that have returned.
C14_NoLostCounterUpdate ==
    (cl_pc = 0 /\ NoLookupUnderWay) =>
        stats_cache.response_hits + stats_cache.response_misses = lookups_done

\* C15, as claimed: clear_cache resets the store and the counters in one
\* atomic step: once the store has been emptied, no counter holds a
\* non-zero value that derives from the time before the clear, neither
\* left over nor set back by a client that read the counter before.
C15_ClearIsAtomic ==
    cl_pc > 0 => \A c \in Counters : ~(taint[c] /\ stats_cache[c] # 0)

\* both clients asked the same question, neither found an entry, and both
\* calls have returned
BothMissed ==
    /\ \A t \in Threads : th_pc[t] = "done" /\ ~th_found[t]
    /\ \A t, u \in Threads : th_q[t] = th_q[u]

\* C16, as claimed: there is no synchronization of identical questions in
\* flight: when both clients ask the same question and both check the cache
\* before either has written it (and no clear_cache call is made), both
\* count a miss, so that response_misses has grown by two, and both run
\* retrieval and generation, once each.
C16_IdenticalInFlightBothRun ==
    (BothMissed /\ cl_pc = 0) =>
        /\ \A t \in Threads : th_ran[t] = 1
        /\ stats_cache.response_misses = MaxThreads


(***************************************************************************)
(* Properties of AdvancedRetriever._combine_results, checked under         *)
(* FuseSpec.  Chunk A is "d1", chunk B is "d3".                            *)
(***************************************************************************)
\* vector results [(A, 0.9), (B, 0.2)], keyword results [(B, 0.8)],
\* vector_weight 0.5, and the call has returned
ScenarioB ==
    /\ fz_pc = "done"
    /\ fz_vector = << <<"d1", 9>>, <<"d3", 2>> >>
    /\ fz_keyword = << <<"d3", 8>> >>
    /\ fz_weight = 5

\* C19, as claimed: in scenario B the fused list holds B before A, B with
\* the combined score 0.5 and A with 0.45.
C19_ScenarioBKeywordHitFirst ==
    ScenarioB =>
        /\ DocsOf(fz_out) = <<"d3", "d1">>
        /\ FracEq(fz_out[1][2], Frac(50, 100))
        /\ FracEq(fz_out[2][2], Frac(45, 100))

\* C19, amended: the scores of each list are min-max normalized before they
\* are weighted, so in scenario B the fused list holds A before B, A with
\* the combined score 0.5 (0.5 x 1.0) and B with 0 (0.5 x 0 + 0.5 x 0).
C19_ScenarioBNormalizedOrder ==
    ScenarioB =>
        /\ DocsOf(fz_out) = <<"d1", "d3">>
        /\ FracEq(fz_out[1][2], Frac(1, 2))
        /\ FracEq(fz_out[2][2], Frac(0, 1))

C19_Witness == ScenarioB /\ Len(fz_out) = 2

\* the normalized scores a list gives to the entries of one fingerprint
NormalizedOf(results, fp) ==
    {Normalize(results)[i][2] :
        i \in {j \in 1..Len(results) : Fingerprint(results[j][1]) = fp}}

\* C20, as claimed: after the call no two entries of the fused list share a
\* fingerprint, and a fingerprint that occurs in both input lists has
\* exactly one entry, whose score is a normalized vector score of that
\* fingerprint times vector_weight plus a normalized keyword score of that
\* fingerprint times (1 - vector_weight).
C20_OneWeightedEntryPerFingerprint ==
    fz_pc = "done" =>
        /\ \A i, j \in 1..Len(fz_out) :
               i # j => Fingerprint(fz_out[i][1]) # Fingerprint(fz_out[j][1])
        /\ \A fp \in {Fingerprint(d) : d \in Docs} :
               (NormalizedOf(fz_vector, fp) # {}
                    /\ NormalizedOf(fz_keyword, fp) # {}) =>
                   /\ Cardinality({i \in 1..Len(fz_out) :
                                      Fingerprint(fz_out[i][1]) = fp}) = 1
                   /\ \E i \in 1..Len(fz_out) :
                      \E nv \in NormalizedOf(fz_vector, fp) :
                      \E nk \in NormalizedOf(fz_keyword, fp) :
                          /\ Fingerprint(fz_out[i][1]) = fp
                          /\ FracEq(fz_out[i][2],
                                    FracAdd(Weighted(nv, fz_weight),
                                            Weighted(nk, 10 - fz_weight)))


\* the fingerprints of a result list
FingerprintsOf(list) == {Fingerprint(list[i][1]) : i \in 1..Len(list)}

\* out ranks the chunks of list and nothing else: one entry for every
\* fingerprint of list, each with a normalized score list gives it
RanksOnly(out, list) ==
    /\ FingerprintsOf(out) = FingerprintsOf(list)
    /\ \A i \in 1..Len(out) :
           \E nv \in NormalizedOf(list, Fingerprint(out[i][1])) :
               FracEq(out[i][2], nv)

\* C21, as claimed: with vector_weight 1.0 the fused list is the ranking of
\* the vector results under their normalized scores, whatever the keyword
\* list holds; with vector_weight 0.0 it is the ranking of the keyword
\* results, whatever the vector list holds.
C21_ExtremeWeightsArePureRankings ==
    fz_pc = "done" =>
        /\ fz_weight = 10 => RanksOnly(fz_out, fz_vector)
        /\ fz_weight = 0 => RanksOnly(fz_out, fz_keyword)

\* are all scores of the list equal (true of the empty list)
AllEqual(results) ==
    \A i, j \in 1..Len(results) : results[i][2] = results[j][2]

\* the result of normalize for one list: an entry per input entry, with a
\* denominator that is not zero and a score in [0, 1], all zero when the
\* scores are all equal
NormalizedOk(results) ==
    LET n == Normalize(results)
    IN  /\ Len(n) = Len(results)
        /\ \A i \in 1..Len(n) :
               /\ n[i][1] = results[i][1]
               /\ n[i][2].den > 0
               /\ 0 <= n[i][2].num /\ n[i][2].num <= n[i][2].den
               /\ AllEqual(results) => n[i][2].num = 0

\* C23: normalize gives every score list scores in [0, 1], all zeros when
\* the scores are all equal (a single score included), the empty list for
\* the empty list, and never divides by zero.
C23_NormalizeInUnitInterval ==
    fz_pc = "done" => NormalizedOk(fz_vector) /\ NormalizedOk(fz_keyword)

C23_Witness ==
    /\ fz_pc = "done"
    /\ fz_vector = <<>>
    /\ Len(fz_keyword) = 3
    /\ AllEqual(fz_keyword)


(***************************************************************************)
(* Properties of CalculatorTool.execute, checked under CalcSpec.           *)
(***************************************************************************)
\* C26, as claimed: execute evaluates the expression only if all its
\* characters are in the allow-list; for any other expression it returns
\* success = false with an error and evaluates nothing; and whatever the
\* expression (empty and malformed ones included) it returns a result and
\* raises nothing.
C26_CalculatorNeverRaises ==
    cx_pc = "done" =>
        /\ cx_out.kind = "returned"
        /\ cx_out.evaluated => AllAllowed(cx_expression)
        /\ ~AllAllowed(cx_expression) =>
               /\ ~cx_out.success
               /\ cx_out.error # "none"
               /\ ~cx_out.evaluated


(***************************************************************************)
(* Properties of AdvancedRetriever.query_expansion, checked under          *)
(* ExpandSpec.                                                             *)
(***************************************************************************)
\* is part a stretch of the text
IsPartOf(part, text) ==
    \E i \in 1..Len(text) : \E j \in i..Len(text) : part = SubSeq(text, i, j)

\* C25: query_expansion returns a list that starts with the query and goes
\* on with at most two texts taken from the lines of the response, 1 to 3
\* elements in all and no two of them equal; when llm.generate raises it
\* returns [query].
C25_ExpansionStartsWithQuery ==
    qe_pc = "done" =>
        /\ Len(qe_out) \in 1..3
        /\ qe_out[1] = qe_query
        /\ \A i, j \in 1..Len(qe_out) : i # j => qe_out[i] # qe_out[j]
        /\ \A i \in 2..Len(qe_out) :
               \E n \in 1..Len(qe_llm.lines) : IsPartOf(qe_out[i], qe_llm.lines[n])
        /\ qe_llm.raises => qe_out = <<qe_query>>

\* three lines that all give a new variation: the third one is cut off
C25_Witness ==
    /\ qe_pc = "done"
    /\ qe_query = <<"W">>
    /\ qe_llm.lines = << <<"1.", " ", "W", "w">>, <<"Variação 2:", "W", "W">>,
                         <<"2.", "-", "w", "W">> >>
    /\ qe_out = << <<"W">>, <<"W", "w">>, <<"W", "W">> >>


(***************************************************************************)
(* Properties of AdvancedRetriever.rerank_results, checked under           *)
(* RerankSpec.  Scores are in tenths.                                      *)
(***************************************************************************)
\* C24: without a usable model (the import failed, or the model raised)
\* rerank_results returns the first min(top_k, n) documents in the order
\* given, the one at position i (from 0) scored 1.0 - 0.1 * i: at most top_k
\* entries, and none for no documents.
C24_FallbackKeepsOrder ==
    (rr_pc = "done" /\ rr_model # "scores") =>
        /\ Len(rr_out) = Min(rr_top_k, Len(rr_documents))
        /\ Len(rr_out) <= rr_top_k
        /\ \A i \in 1..Len(rr_out) : rr_out[i] = <<rr_documents[i], 10 - (i - 1)>>
        /\ rr_documents = <<>> => rr_out = <<>>

C24_Witness ==
    /\ rr_pc = "done"
    /\ rr_model = "raises"
    /\ Len(rr_documents) = 3
    /\ rr_top_k = 2
    /\ Len(rr_out) = 2


(***************************************************************************)
(* Termination of AutonomousAgent.process_stream, checked under LiveSpec.  *)
(***************************************************************************)
\* a step of the loop: a tool is executed only for a plan that is not
\* complete and asks for a tool, and planning goes on only after a known
\* tool has succeeded with iterations left
LoopStep ==
    /\ (pc = "plan" /\ pc' = "tool") =>
           ~IsComplete(plan') /\ NeedsTool(plan') /\ HasTool(plan')
    /\ (pc = "tool" /\ pc' = "plan") =>
           /\ GetTool(plan.tool) # None
           /\ Len(tool_results') = Len(tool_results) + 1
           /\ tool_results'[Len(tool_results')].success
           /\ iteration' < max_iterations

\* the call has finished: the "Sintetizando" status event, later the
\* metadata event, and the generator at its end
Finished ==
    /\ pc = "done"
    /\ \E i, j \in 1..Len(agent_events) :
           /\ i < j
           /\ agent_events[i].type = "status"
           /\ agent_events[i].data = "sintetizando"
           /\ agent_events[j].type = "metadata"

\* C27, as claimed: the loop ends at the first of is_complete, no tool
\* requested, a failed tool, an unknown tool or max_iterations planning
\* steps; there are never more than 3 planning requests; and every call
\* reaches the synthesis step and ends with the metadata event emitted.
C27_LoopEndsAndAgentFinishes ==
    /\ [][LoopStep]_vars
    /\ [](plan_calls <= max_iterations)
    /\ <>Finished


(***************************************************************************)
(* Properties of the retrieval steps of query_stream, checked under        *)
(* PipeSpec.                                                               *)
(***************************************************************************)
\* the entries the searches put into all_results, as <<variant, position>>
Found == {p \in (1..Len(rt_results)) \X (1..(MaxVectorHits + MaxKeywordHits)) :
             p[2] <= Len(rt_results[p[1]])}

FoundEntry(p) == rt_results[p[1]][p[2]]

\* the entries of all_results with the fingerprint fp
FoundWith(fp) == {p \in Found : Fingerprint(FoundEntry(p)[1]) = fp}

\* a list is non-increasing in score
Descending(list) ==
    \A i \in 1..(Len(list) - 1) : FracGE(list[i][2], list[i + 1][2])

\* C30: after the fusion across variants no two entries of the shortlist
\* have the same fingerprint, each entry carries the highest score its
\* fingerprint received in any variant's result set, the shortlist is in
\* descending score order and has at most 2 * k_documents entries; a
\* fingerprint is left out only of a full shortlist, and never for a lower
\* score than one that is in it.
C30_ShortlistIsDedupedAndSorted ==
    rt_pc \in {"select", "done"} =>
        /\ \A i, j \in 1..Len(rt_top) :
               i # j => Fingerprint(rt_top[i][1]) # Fingerprint(rt_top[j][1])
        /\ \A i \in 1..Len(rt_top) :
               /\ \E p \in Found : FoundEntry(p) = rt_top[i]
               /\ \A p \in FoundWith(Fingerprint(rt_top[i][1])) :
                      FracGE(rt_top[i][2], FoundEntry(p)[2])
        /\ Descending(rt_top)
        /\ Len(rt_top) <= 2 * rt_args.k
        /\ \A p \in Found :
               Fingerprint(FoundEntry(p)[1]) \notin FingerprintsOf(rt_top) =>
                   /\ Len(rt_top) = 2 * rt_args.k
                   /\ FracGE(rt_top[Len(rt_top)][2], FoundEntry(p)[2])

\* a fingerprint found by both variants, the better score by the second,
\* and more fingerprints found than the shortlist takes
C30_Witness ==
    /\ rt_pc = "select"
    /\ Len(rt_results) = 2
    /\ \E i \in 1..Len(rt_results[1]), j \in 1..Len(rt_results[2]) :
           /\ Fingerprint(rt_results[1][i][1]) = Fingerprint(rt_results[2][j][1])
           /\ ~FracGE(rt_results[1][i][2], rt_results[2][j][2])
           /\ rt_results[2][j] = rt_top[1]
    /\ Len(rt_top) = 2 * rt_args.k
    /\ \E p \in Found : Fingerprint(FoundEntry(p)[1]) \notin FingerprintsOf(rt_top)

\* C28: the reranker is invoked exactly when use_rerank is set and the
\* shortlist has more than k_documents entries; otherwise the selection is
\* the first k_documents entries of the shortlist, in its order and with its
\* scores; either way the selection has at most k_documents entries, all of
\* them documents of the shortlist.
C28_RerankOnlyForLongShortlist ==
    rt_pc = "done" =>
        /\ rt_rerank # "none" <=>
               (rt_args.use_rerank /\ Len(rt_top) > rt_args.k)
        /\ rt_rerank = "none" => rt_final = Take(rt_top, rt_args.k)
        /\ Len(rt_final) <= rt_args.k
        /\ \A i \in 1..Len(rt_final) :
               \E j \in 1..Len(rt_top) : rt_final[i][1] = rt_top[j][1]

\* use_rerank set and a shortlist of exactly k_documents entries, selected
\* as it is
C28_Witness ==
    /\ rt_pc = "done"
    /\ rt_args.use_rerank
    /\ rt_args.k = 2
    /\ Len(rt_top) = 2
    /\ rt_rerank = "none"
    /\ rt_final = rt_top

\* the searches made so far: for every variant searched one vector search
\* and, in hybrid mode only, one keyword search, each asking for n entries
SearchesAsk(n) ==
    /\ \A i \in 1..Len(rt_log) : rt_log[i].k = n
    /\ Cardinality({i \in 1..Len(rt_log) : rt_log[i].search = "vector"})
           = Len(rt_results)
    /\ Cardinality({i \in 1..Len(rt_log) : rt_log[i].search = "keyword"})
           = IF rt_args.use_hybrid THEN Len(rt_results) ELSE 0

\* C29, as claimed: for each variant the vector search and, in hybrid mode,
\* the keyword search are each invoked with k = 3 * k_documents, in hybrid
\* mode as well as in vector-only mode.
C29_SearchesAskThreeTimesK == SearchesAsk(3 * rt_args.k)

\* C29, amended: in vector-only mode the vector search is invoked with
\* k = 3 * k_documents; in hybrid mode hybrid_search is called with
\* k = 3 * k_documents and invokes the vector search and the keyword search
\* with twice that, 6 * k_documents, each; in both modes a variant adds at
\* most 3 * k_documents entries to all_results.
C29_HybridSearchesAskSixTimesK ==
    /\ SearchesAsk(IF rt_args.use_hybrid THEN 6 * rt_args.k ELSE 3 * rt_args.k)
    /\ \A v \in 1..Len(rt_results) : Len(rt_results[v]) <= 3 * rt_args.k

\* two variants searched in hybrid mode
C29_Witness ==
    /\ rt_pc = "fuse"
    /\ rt_args.use_hybrid
    /\ Len(rt_results) = 2
    /\ Len(rt_log) = 4
    /\ rt_log[4] = [search |-> "keyword", k |-> 6 * rt_args.k]

\* C22: every scored list handed to a caller is non-increasing in score by
\* position: what hybrid_search returns for a variant, what rerank_results
\* returns on the model path and on the fallback path, and the final
\* selection that goes into the sources event.
C22_ScoredListsAreDescending ==
    /\ rt_args.use_hybrid => \A v \in 1..Len(rt_results) : Descending(rt_results[v])
    /\ rt_pc = "done" => Descending(rt_final)

\* a hybrid search that returned two different scores, and a reranked
\* selection of two entries with different scores
C22_Witness ==
    /\ rt_pc = "done"
    /\ rt_args.use_hybrid
    /\ rt_rerank = "scores"
    /\ Len(rt_results[1]) >= 2
    /\ ~FracGE(rt_results[1][2][2], rt_results[1][1][2])
    /\ Len(rt_final) = 2
    /\ ~FracGE(rt_final[2][2], rt_final[1][2])


(***************************************************************************)
(* The cache entries under concurrent clients, checked under ConcSpec.     *)
(***************************************************************************)
\* the store holds a live entry for the question q
HasLiveEntry(q) ==
    LET got == StoreGet(response_cache, QuestionHash(q), now)
    IN  got # <<>> /\ IsLive(got[1].timestamp, now)

\* C34, as claimed: a cache entry is never updated in place: under every
\* interleaving of concurrent requests, no set_response_cache call replaces
\* an entry that is still live for the same normalized question.
C34_NoLiveEntryReplaced ==
    [][\A t \in Threads :
          (th_pc[t] = "write" /\ th_pc'[t] = "done") => ~HasLiveEntry(th_q[t])]_vars


(***************************************************************************)
(* Range and order of the fused scores, checked under FuseSpec.            *)
(***************************************************************************)
\* C35, as claimed: every score in the list _combine_results returns lies
\* in [0,1], for every vector_weight in [0,1] and all input lists, also
\* when several chunks of one list share a fingerprint.
C35_FusedScoresInUnitInterval ==
    fz_pc = "done" =>
        \A i \in 1..Len(fz_out) :
            /\ FracGE(fz_out[i][2], Frac(0, 1))
            /\ FracGE(Frac(1, 1), fz_out[i][2])

\* the least element of a non-empty set of positions
Least(S) == CHOOSE i \in S : \A j \in S : i <= j

\* the positions of a list whose chunk has the fingerprint fp
PositionsOf(list, fp) ==
    {i \in 1..Len(list) : Fingerprint(list[i][1]) = fp}

\* when the fingerprint fp is first seen by _combine_results: its first
\* position in the vector list or, if it is not there, behind the whole
\* vector list at its first position in the keyword list
FirstSeen(fp) ==
    IF PositionsOf(fz_vector, fp) # {}
    THEN Least(PositionsOf(fz_vector, fp))
    ELSE Len(fz_vector) + Least(PositionsOf(fz_keyword, fp))

\* C37: in the fused list entries of equal combined score are in first-seen
\* order, the vector list first: an entry whose fingerprint is in the vector
\* list stands before an equal-scored entry found by the keyword search
\* only, and equal-scored entries first seen in the same list are in the
\* order in which that list first shows their fingerprints.
C37_TiesKeepFirstSeenOrder ==
    fz_pc = "done" =>
        \A i, j \in 1..Len(fz_out) :
            (i < j /\ FracEq(fz_out[i][2], fz_out[j][2])) =>
                FirstSeen(Fingerprint(fz_out[i][1]))
                    < FirstSeen(Fingerprint(fz_out[j][1]))

\* two entries of one score that is not 0: the first is in the vector list,
\* the second was found by the keyword search only, which lists it ahead of
\* the first
C37_Witness ==
    /\ fz_pc = "done"
    /\ Len(fz_out) >= 2
    /\ FracEq(fz_out[1][2], fz_out[2][2])
    /\ ~FracEq(fz_out[1][2], Frac(0, 1))
    /\ PositionsOf(fz_vector, Fingerprint(fz_out[1][1])) # {}
    /\ PositionsOf(fz_vector, Fingerprint(fz_out[2][1])) = {}
    /\ PositionsOf(fz_keyword, Fingerprint(fz_out[1][1])) # {}
    /\ Least(PositionsOf(fz_keyword, Fingerprint(fz_out[2][1])))
           < Least(PositionsOf(fz_keyword, Fingerprint(fz_out[1][1])))


(***************************************************************************)
(* Range of the fallback scores of rerank_results, checked under           *)
(* RerankSpec.  Scores are in tenths.                                      *)
(***************************************************************************)
\* C36, as claimed: every score the rerank fallback returns lies in [0,1],
\* for every list of documents and every top_k.
C36_FallbackScoresInUnitInterval ==
    (rr_pc = "done" /\ rr_model # "scores") =>
        \A i \in 1..Len(rr_out) : rr_out[i][2] >= 0 /\ rr_out[i][2] <= 10


(***************************************************************************)
(* The length test of query_expansion, checked under ExpandSpec.           *)
(***************************************************************************)
\* the variants when a cleaned line is kept exactly if it has at least
\* min_len characters and is not among the variants yet
RECURSIVE Kept(_, _, _)
Kept(lines, variations, min_len) ==
    IF lines = <<>> THEN variations
    ELSE LET clean == CleanLine(Head(lines))
         IN  Kept(Tail(lines),
                  IF /\ TextLen(clean) >= min_len
                     /\ clean \notin {variations[i] : i \in 1..Len(variations)}
                  THEN Append(variations, clean)
                  ELSE variations,
                  min_len)

\* the call has returned and llm.generate did not raise
Expanded == qe_pc = "done" /\ ~qe_llm.raises

\* C32, as claimed: a generated line is discarded (after prefix stripping)
\* exactly when it is shorter than 10 characters or duplicates an existing
\* variant; a new line of 10 or more characters, also one of exactly 10, is
\* accepted until 3 variants are reached.
C32_LinesOfTenAccepted ==
    Expanded => qe_out = Take(Kept(qe_llm.lines, <<qe_query>>, 10), MaxQueries)

\* C32, amended: a generated line is discarded (after prefix stripping)
\* exactly when it has 10 characters or fewer or duplicates an existing
\* variant; a new line of 11 or more characters is accepted until 3 variants
\* are reached, and a line of exactly 10 characters is discarded.
C32_LinesOfElevenAccepted ==
    Expanded => qe_out = Take(Kept(qe_llm.lines, <<qe_query>>, 11), MaxQueries)

\* a line of 10 characters discarded, the line of 11 after it accepted
C32_Witness ==
    /\ Expanded
    /\ qe_query = <<"w">>
    /\ qe_llm.lines = << <<"T">>, <<"-", " ", "W">> >>
    /\ qe_out = << <<"w">>, <<"W">> >>


LastStatus(evs) ==
    LET S == {i \in 1..Len(evs) : evs[i].type = "status"}
    IN  IF S = {} THEN 0 ELSE CHOOSE i \in S : \A j \in S : j <= i

\* the data of the chunk events, one element per event
RECURSIVE ChunkData(_)
ChunkData(evs) ==
    IF evs = <<>> THEN <<>>
    ELSE IF Head(evs).type = "chunk"
         THEN <<Head(evs).data>> \o ChunkData(Tail(evs))
         ELSE ChunkData(Tail(evs))

\* the request at hand missed the cache, selected chunks and ran to its end
MissCompleted == qs_pc = "done" /\ ~CacheHit /\ final_docs # <<>>

\* the request at hand was answered from the cache and ran to its end
HitCompleted == qs_pc = "done" /\ CacheHit

\* the answer of the entry stored under the key of the request at hand
StoredAnswer == response_cache[RequestKey].value.response.answer

\* C31: on a miss that runs to completion the chunk events after the last
\* status event carry exactly the fragments generate_stream produced, one
\* event per fragment and in production order, and the answer written to
\* the cache is their concatenation; on a later hit the concatenation of
\* the replayed chunk events equals that answer.
C31_AnswerSurvivesRoundTrip ==
    /\ MissCompleted =>
          /\ ChunkData(SubSeq(events, LastStatus(events) + 1, Len(events)))
                = calls.fragments
          /\ CountType(events, "chunk") = Len(calls.fragments)
          /\ RequestKey \in DOMAIN response_cache
          /\ StoredAnswer = Flatten(calls.fragments)
    /\ HitCompleted =>
          /\ RequestKey \in DOMAIN response_cache
          /\ cached[1].answer = StoredAnswer
          /\ ChunkText(events) = StoredAnswer

\* an answer made of a fragment of 4 and a fragment of 11 characters comes
\* back from the cache in a slice of 10 and a slice of 5
C31_Witness ==
    /\ HitCompleted
    /\ StoredAnswer = Rep("x", 4) \o Rep("y", 11)
    /\ ChunkData(events) = <<Rep("x", 4) \o Rep("y", 6), Rep("y", 5)>>


(***************************************************************************)
(* The cache check and the flags of a request, checked under SeqSpec.      *)
(***************************************************************************)
\* the entry under the key of question q is live at time t
LiveEntry(q, t) ==
    LET key == QuestionHash(q)
    IN  /\ key \in DOMAIN response_cache
        /\ response_cache[key].expire_time > t
        /\ IsLive(response_cache[key].value.timestamp, t)

\* the step is the cache check of a request
IsLookup == requests' # requests

\* the outcome of the cache check is a function of the question alone
LookupByQuestionOnly ==
    IsLookup =>
        IF LiveEntry(qs_args'.question, now)
        THEN /\ cached' = <<response_cache[QuestionHash(qs_args'.question)]
                                .value.response>>
             /\ qs_pc' = "replay"
        ELSE /\ cached' = <<>>
             /\ qs_pc' = "buscando"

\* C39: the cache check depends on the normalized question only: a call
\* with any combination of use_hybrid, use_rerank and use_expansion replays
\* the live entry of its question, also one written by a call with another
\* combination, and the metadata event of the replay reports the method
\* "cached", not the method stored in the entry.
C39_HitIgnoresFlags ==
    /\ [][LookupByQuestionOnly]_vars
    /\ [](HitCompleted => /\ IsMetadata(events, Len(events) - 1, "cached")
                          /\ events[Len(events)].data = cached[1].sources)

\* a plain call with expansion replays an entry written by a hybrid call
\* with reranking
C39_Witness ==
    /\ HitCompleted
    /\ cached[1].method = Method(TRUE, TRUE)
    /\ ~qs_args.use_hybrid
    /\ ~qs_args.use_rerank
    /\ qs_args.use_expansion


(***************************************************************************)
(* The order of the events of a miss, checked under TripSpec.              *)
(***************************************************************************)
\* status events, then chunk events, then one metadata and one sources
\* event with one source per selected chunk
MissShape(evs, selected) ==
    LET n == Len(evs)
        s == LastStatus(evs)
    IN  /\ s >= 1
        /\ n >= s + 2
        /\ \A i \in 1..s : evs[i].type = "status"
        /\ \A i \in (s + 1)..(n - 2) : evs[i].type = "chunk"
        /\ evs[n - 1].type = "metadata"
        /\ evs[n].type = "sources"
        /\ Len(evs[n].data) = Len(selected)

\* C40: on a miss with at least one selected chunk the events of a
\* completed query_stream are one or more status events, then zero or more
\* chunk events, then exactly one metadata event, then exactly one sources
\* event with one source per selected chunk; no status event follows the
\* first chunk event, and the cache is written only after the sources
\* event was emitted.
C40_MissEventsInOrder ==
    /\ MissCompleted => MissShape(events, final_docs)
    /\ ~CacheHit =>
          /\ \A i, j \in 1..Len(events) :
                 (i < j /\ events[i].type = "chunk") => events[j].type # "status"
          /\ calls.cache_write > 0 =>
                 /\ qs_pc = "done"
                 /\ events[Len(events)].type = "sources"

\* a miss with expansion and reranking: four status events, two chunks,
\* the metadata, the source of the one selected chunk, and the cache write
C40_Witness ==
    /\ MissCompleted
    /\ CountType(events, "status") = 4
    /\ CountType(events, "chunk") = 2
    /\ Len(events[Len(events)].data) = 1
    /\ calls.cache_write = 1


(***************************************************************************)
(* The counters in sequential use, checked under SeqSpec.                  *)
(***************************************************************************)
\* the step is the cache write of a request
IsCacheWrite == qs_pc = "sources" /\ qs_pc' = "done"

\* the step has the effect of clear_cache('all'): the responses are gone
\* and the counters are those of _init_stats
IsClearAll ==
    /\ cl_pc' # cl_pc
    /\ DOMAIN response_cache' = {}
    /\ stats_cache' = InitStats

\* some counter is lower after the step than before it
CounterDecreased ==
    \E c \in DOMAIN stats_cache : stats_cache'[c] < stats_cache[c]

\* C38: in sequential use every get_response_cache call adds 1 to exactly
\* one of response_hits and response_misses, to response_hits exactly when
\* it returns a live entry; set_response_cache changes no counter; and no
\* step but clear_cache('all') lowers a counter.
C38_CountersCountLookups ==
    [][/\ IsLookup =>
             /\ LiveEntry(qs_args'.question, now) <=> cached' # <<>>
             /\ IF cached' # <<>>
                THEN /\ stats_cache'.response_hits = stats_cache.response_hits + 1
                     /\ stats_cache'.response_misses = stats_cache.response_misses
                ELSE /\ stats_cache'.response_misses = stats_cache.response_misses + 1
                     /\ stats_cache'.response_hits = stats_cache.response_hits
       /\ IsCacheWrite => stats_cache' = stats_cache
       /\ CounterDecreased => IsClearAll]_vars

\* a miss, a hit, and then clear_cache('responses'): the entry is gone and
\* both counts are kept
C38_Witness ==
    /\ cl_pc # 0
    /\ qs_pc = "done"
    /\ CacheHit
    /\ DOMAIN response_cache = {}
    /\ stats_cache.response_hits = 1
    /\ stats_cache.response_misses = 1

====
